---- MODULE Spec2Model ----
(***************************************************************************)
(* Ruta: the map component's waypoint state (current pin, From, To, route  *)
(* mode), the asynchronous reverse-geocode label upgrades, the geolocation *)
(* request and the routing provider chain with its polyline decoder; the   *)
(* reverse-geocoding endpoint with its cache, the address formatter and    *)
(* the route suggestion from the hook through the server to the text       *)
(* service.                                                                *)
(*                                                                         *)
(* Conventions:                                                            *)
(*  - a JavaScript null/undefined location is the empty tuple Null;        *)
(*    [lat, lng] is a 2-tuple, [lat, lng, label] a 3-tuple;                *)
(*  - coordinates are integers in units of 10^-5 degree;                   *)
(*  - a text with commas is the sequence of its comma separated segments,  *)
(*    so "a, b" is <<"a", "b">> and a one-word label is <<"From Location">>*)
(*  - the reverse-geocode requests in flight are a bag: they complete in  *)
(*    any order;                                                           *)
(*  - the repository holds two sets of Set From / Set To / click handlers: *)
(*    the ones inlined in CebuMap.js and the ones of the useLocationHandlers*)
(*    hook and LocationMarker.js; build says which set is wired to the UI. *)
(***************************************************************************)
EXTENDS Integers, Sequences, FiniteSets, Bags, TLC

VARIABLES build, showModal, geoPending, userPosition, userPositionAccuracy,
          geoError, destination, fromLocation, toLocation, routeMode,
          routeCoordinates, pending, lastEvent, fetches, requestLog,
          lastReply,
          now, CACHE, timers, requests, lastServed,
          codecPc, codecSeq, codecStr, codecOut,
          fmt, suggest, silent, dec, locating

vars == <<build, showModal, geoPending, userPosition, userPositionAccuracy,
          geoError, destination, fromLocation, toLocation, routeMode,
          routeCoordinates, pending, lastEvent, fetches, requestLog,
          lastReply,
          now, CACHE, timers, requests, lastServed,
          codecPc, codecSeq, codecStr, codecOut,
          fmt, suggest, silent, dec, locating>>

\* the map component in the browser
clientVars == <<build, showModal, geoPending, userPosition,
                userPositionAccuracy, geoError, destination, fromLocation,
                toLocation, routeMode, routeCoordinates, pending, lastEvent,
                fetches, requestLog, lastReply>>

\* the reverse-geocoding endpoint on the server
serverVars == <<now, CACHE, timers, requests, lastServed>>

\* a polyline on its way from the routing service through the decoder
codecVars == <<codecPc, codecSeq, codecStr, codecOut>>

\* an address on its way through the formatter: where it is, the address
\* as it came and as formatAddress returned it
formatVars == <<fmt>>
fmtPc == fmt.pc
fmtIn == fmt.fullAddress
fmtOut == fmt.formattedAddress

\* the route suggestion: the state the hook sets, the calls of
\* handleGetAISuggestion that have not returned, how many were made and, as
\* history, the last two that returned
suggestVars == <<suggest>>
aiSuggestion == suggest.aiSuggestion
loadingAI == suggest.loadingAI
aiError == suggest.aiError
suggestRequests == suggest.requests
suggestCalls == suggest.calls
lastSuggest == suggest.last
prevSuggest == suggest.prev

\* the services that never answer a request
envVars == <<silent>>

\* one call of decodePolyline taken one inner-loop iteration at a time: the
\* locals of the function, where it stands, and the last byte read with the
\* outcome of the loop test on it
decodeVars == <<dec>>

\* one call of getLocation: the locals best and done, the watch and the
\* timer, and the value the promise was resolved with
locateVars == <<locating>>

\* what the steps of one part leave alone
notClient == <<serverVars, codecVars, formatVars, suggestVars, envVars,
              decodeVars, locateVars>>
notServer == <<clientVars, codecVars, formatVars, suggestVars, envVars,
              decodeVars, locateVars>>
notCodec == <<clientVars, serverVars, formatVars, suggestVars, envVars,
              decodeVars, locateVars>>
notFormat == <<clientVars, serverVars, codecVars, suggestVars, envVars,
              decodeVars, locateVars>>
notSuggest == <<clientVars, serverVars, codecVars, formatVars, envVars,
              decodeVars, locateVars>>
notDecode == <<clientVars, serverVars, codecVars, formatVars, suggestVars,
              envVars, locateVars>>
notLocate == <<clientVars, serverVars, codecVars, formatVars, suggestVars,
              envVars, decodeVars>>

uiVars == <<showModal, geoPending, userPosition, userPositionAccuracy, geoError>>
routeVars == <<fetches, requestLog, lastReply>>

\* ------------------------------------------------------------------ bounds
NumPoints == 2
MaxPending == 2
MaxCalls == 2
MaxPathLen == 2
MaxOutstanding == 2
MaxTicks == 4
MaxSegments == 3
MaxSuggests == 2

\* --------------------------------------------------------------- constants
Null == << >>

\* the places the user can click, 10^-5 degree units
Coords == {<<10 + i, 123 + i>> : i \in 0 .. NumPoints - 1}

\* the fix reported by the device, a place the user can also click
GeoFix == <<10, 123>>

GeoAccuracy == 30

NoAccuracy == -1

StreetNames == <<"Colon Street", "Osmena Blvd", "Mango Ave", "Jones Ave">>

\* what the reverse-geocoding service answers for a place: a verbose address
DisplayName(lat, lng) ==
    <<StreetNames[((lat - 9) % Len(StreetNames)) + 1], "Cebu City", "Cebu",
      "Central Visayas", "6000", "Philippines">>

\* history: what the reverse-geocoding endpoint did last
NoServed ==
    [op |-> "none", status |-> 0, key |-> << >>, at |-> 0, display_name |-> << >>]

\* history: the provider response handled last
NoReply ==
    [call |-> 0, provider |-> "none", status |-> "none", body |-> "none",
     payload |-> << >>, start |-> << >>, end |-> << >>]

\* ------------------------------------------------------- address formatter
unwantedPatterns == {"Philippines", "Philippine", "Cebu", "Region VII",
                     "Central Visayas", "Visayas"}

IsPostalCode(part) == part \in {"6000", "60000"}

slice(s, n) == IF Len(s) <= n THEN s ELSE SubSeq(s, 1, n)

formatAddress(fullAddress) ==
    IF fullAddress = Null THEN Null
    ELSE LET parts == SelectSeq(fullAddress, LAMBDA part : part # "")
             filtered == SelectSeq(parts, LAMBDA part :
                            ~(IsPostalCode(part) \/ part \in unwantedPatterns))
             relevant == slice(filtered, 3)
         IN  IF Len(relevant) >= 1 THEN relevant
             ELSE IF slice(parts, 2) # Null THEN slice(parts, 2)
             ELSE fullAddress

\* reverseGeocode(lat, lng): the formatted address, or null on any failure
reverseGeocode(reply) ==
    IF reply = Null THEN Null ELSE formatAddress(reply)

\* the answers the reverse-geocoding endpoint can give for a place
GeoReplies(lat, lng) == {Null, DisplayName(lat, lng)}

\* -------------------------------------------------------- polyline decoder
\* A string is the sequence of its UTF-16 code units.  An int32 is kept as
\* its low 31 bits lo and its sign bit hi, so that no intermediate value
\* leaves the checker's integer range.
NaN == -100000

Pow2(n) == 2 ^ n

Int32Zero == [lo |-> 0, hi |-> FALSE]

\* str.charCodeAt(index) - 63; past the end charCodeAt is NaN
ByteAt(str, index) == IF index < Len(str) THEN str[index + 1] - 63 ELSE NaN

\* byte & 0x1f
Low5(byte) == IF byte = NaN THEN 0 ELSE byte % 32

\* a loop test that takes 0x20 itself for a last group: byte > 0x20
ContinuesAbove(byte) == byte # NaN /\ byte > 32

\* the loop test of the do-while: byte >= 0x20
Continues(byte) == byte # NaN /\ byte >= 32

Bit(n, j) == (n \div Pow2(j)) % 2

\* (byte & 0x1f) << shift, the shift count taken modulo 32
Shl32(b, shift) ==
    LET s == (shift % 32)
        at(j) == s + j
    IN  [lo |-> (IF at(0) < 31 THEN Bit(b, 0) * Pow2(at(0)) ELSE 0)
              + (IF at(1) < 31 THEN Bit(b, 1) * Pow2(at(1)) ELSE 0)
              + (IF at(2) < 31 THEN Bit(b, 2) * Pow2(at(2)) ELSE 0)
              + (IF at(3) < 31 THEN Bit(b, 3) * Pow2(at(3)) ELSE 0)
              + (IF at(4) < 31 THEN Bit(b, 4) * Pow2(at(4)) ELSE 0),
         hi |-> \E j \in 0 .. 4 : at(j) = 31 /\ Bit(b, j) = 1]

RECURSIVE BitOr(_, _)
BitOr(a, b) ==
    IF a = 0 THEN b
    ELSE IF b = 0 THEN a
    ELSE (IF a % 2 = 1 \/ b % 2 = 1 THEN 1 ELSE 0) + 2 * BitOr(a \div 2, b \div 2)

\* result |= x
Or32(x, y) == [lo |-> BitOr(x.lo, y.lo), hi |-> x.hi \/ y.hi]

\* the signed value of an int32
Signed(x) == IF x.hi THEN (x.lo - 1073741824) - 1073741824 ELSE x.lo

\* result >> 1 whatever the low bit: every delta taken as positive
ZigZagUnsigned(result) == Signed(result) \div 2

\* (result & 1) ? ~(result >> 1) : (result >> 1)
ZigZag(result) ==
    LET half == Signed(result) \div 2
    IN  IF result.lo % 2 = 1 THEN (0 - half) - 1 ELSE half

\* one do-while loop: reads groups from index on, returns the assembled
\* int32 and the index after the last group read
RECURSIVE ReadValue(_, _, _, _)
ReadValue(str, index, shift, result) ==
    LET byte == ByteAt(str, index)
        next == Or32(result, Shl32(Low5(byte), shift))
    IN  IF Continues(byte)
        THEN ReadValue(str, index + 1, shift + 5, next)
        ELSE [result |-> next, index |-> index + 1]

\* the while loop of decodePolyline; a point is [lat / factor, lng / factor],
\* kept as the pair of numerators over factor = 10^5
RECURSIVE DecodeFrom(_, _, _, _, _)
DecodeFrom(str, index, lat, lng, coordinates) ==
    IF index < Len(str)
    THEN LET a == ReadValue(str, index, 0, Int32Zero)
             b == ReadValue(str, a.index, 0, Int32Zero)
             lat2 == lat + ZigZag(a.result)
             lng2 == lng + ZigZag(b.result)
         IN  DecodeFrom(str, b.index, lat2, lng2,
                        Append(coordinates, <<lat2, lng2>>))
    ELSE coordinates

decodePolyline(str) == DecodeFrom(str, 0, 0, 0, << >>)

\* the encoder of the Encoded Polyline Algorithm Format, the inverse that
\* the routing service applies to its path
RECURSIVE EncodeUnsigned(_)
EncodeUnsigned(v) ==
    IF v >= 32 THEN <<(32 + (v % 32)) + 63>> \o EncodeUnsigned(v \div 32)
    ELSE <<v + 63>>

EncodeSigned(d) == EncodeUnsigned(IF d < 0 THEN (0 - 2 * d) - 1 ELSE 2 * d)

RECURSIVE EncodeFrom(_, _, _)
EncodeFrom(path, lat, lng) ==
    IF path = << >> THEN << >>
    ELSE EncodeSigned(path[1][1] - lat) \o EncodeSigned(path[1][2] - lng)
         \o EncodeFrom(Tail(path), path[1][1], path[1][2])

encodePolyline(path) == EncodeFrom(path, 0, 0)

\* ------------------------------------------------------------------- Init
\* the server after start-up: Date.now() taken as 0, const CACHE = new Map()
InitServer ==
    /\ now = 0
    /\ CACHE = << >>
    /\ timers = EmptyBag
    /\ requests = EmptyBag
    /\ lastServed = NoServed

\* no polyline under way
InitCodec ==
    /\ codecPc = "idle"
    /\ codecSeq = << >>
    /\ codecStr = << >>
    /\ codecOut = << >>

\* no address under way
InitFormat ==
    fmt = [pc |-> "idle", fullAddress |-> << >>, formattedAddress |-> << >>]

\* the map component after its first render
\* a finished call of handleGetAISuggestion: none yet
NoSuggest ==
    [call |-> 0, since |-> 0, from |-> << >>, to |-> << >>,
     fetched |-> FALSE, asked |-> FALSE, reply |-> "none", content |-> << >>, status |-> 0,
     outcome |-> "none", message |-> << >>]

\* the state behind the setters the hook is given, before the first call
InitSuggest ==
    suggest = [aiSuggestion |-> Null, loadingAI |-> FALSE, aiError |-> Null,
               requests |-> {}, calls |-> 0,
               last |-> NoSuggest, prev |-> NoSuggest]

\* every service answers
InitEnv == silent = {}

\* a part of the program that is not being followed
Idle == [pc |-> "idle"]

\* the locals of decodePolyline as the function is entered
NoDecode ==
    [pc |-> "idle", str |-> << >>, index |-> 0, shift |-> 0,
     result |-> Int32Zero, byte |-> NaN, continued |-> FALSE, groups |-> 0,
     latitude_change |-> 0, lat |-> 0, lng |-> 0, coordinates |-> << >>]

\* no call of decodePolyline is being followed
InitDecode == dec = Idle

\* getLocation about to be called
NoLocate ==
    [pc |-> "idle", best |-> Null, done |-> FALSE, watching |-> FALSE,
     timer |-> "none", resolveCalls |-> 0, value |-> Null, by |-> "none",
     received |-> << >>, errors |-> 0, settledAt |-> 0]

\* no call of getLocation is being followed
InitLocate == locating = Idle

InitClient ==
    /\ build \in {"monolith", "hooks"}
    /\ showModal = TRUE
    /\ geoPending = FALSE
    /\ userPosition = Null
    /\ userPositionAccuracy = NoAccuracy
    /\ geoError = FALSE
    /\ destination = Null
    /\ fromLocation = Null
    /\ toLocation = Null
    /\ routeMode = "none"
    /\ routeCoordinates = << >>
    /\ pending = EmptyBag
    /\ lastEvent = "init"
    /\ fetches = << >>
    /\ requestLog = << >>
    /\ lastReply = NoReply

Init ==
    /\ InitClient /\ InitServer /\ InitCodec /\ InitFormat /\ InitSuggest
    /\ InitEnv /\ InitDecode /\ InitLocate

\* ---------------------------------------------------------------- helpers
Remove(s, i) == SubSeq(s, 1, i - 1) \o SubSeq(s, i + 1, Len(s))

\* one more / one fewer request in flight
Issue(b, t) == b (+) SetToBag({t})
Settle(b, t) == b (-) SetToBag({t})

\* destination[2] || fallback
LabelOr(loc, fallback) == IF Len(loc) >= 3 /\ loc[3] # Null THEN loc[3] ELSE fallback

Task(kind, lat, lng) == [kind |-> kind, lat |-> lat, lng |-> lng, stale |-> FALSE]

\* history: a pending label upgrade whose waypoint has since been cleared is
\* marked stale
MarkStale(b, kinds) ==
    LET mark(t) == IF t.kind \in kinds THEN [t EXCEPT !.stale = TRUE] ELSE t
        count(t) == IF t \in DOMAIN b THEN b[t] ELSE 0
    IN  [u \in {mark(t) : t \in DOMAIN b} |->
            IF u.kind \in kinds
            THEN count(u) + count([u EXCEPT !.stale = FALSE])
            ELSE count(u)]

\* ------------------------------------------------------- the start-up modal
useGeolocation ==
    /\ showModal
    /\ showModal' = FALSE
    /\ geoPending' = TRUE
    /\ lastEvent' = "use_geolocation"
    /\ UNCHANGED notClient
    /\ UNCHANGED <<build, userPosition, userPositionAccuracy, geoError,
                   destination, fromLocation, toLocation, routeMode,
                   routeCoordinates, pending, routeVars>>

useManualSelection ==
    /\ showModal
    /\ showModal' = FALSE
    /\ lastEvent' = "manual_selection"
    /\ UNCHANGED notClient
    /\ UNCHANGED <<build, geoPending, userPosition, userPositionAccuracy,
                   geoError, destination, fromLocation, toLocation, routeMode,
                   routeCoordinates, pending, routeVars>>

\* what getLocation(50, 10000) can resolve to: null, or the best fix
\* [lat, lng, 'Current location', accuracy]
GetLocationResults ==
    {Null, <<GeoFix[1], GeoFix[2], <<"Current location">>, GeoAccuracy>>}

\* the .then callback of useGeolocation
getLocationResolved(loc) ==
    /\ geoPending
    /\ geoPending' = FALSE
    /\ IF loc # Null /\ Len(loc) >= 4
       THEN /\ userPosition' = <<loc[1], loc[2]>>
            /\ userPositionAccuracy' = loc[4]
            /\ destination' = <<loc[1], loc[2], <<"Current location">>>>
            /\ fromLocation' = <<loc[1], loc[2], <<"Current location">>>>
            /\ routeMode' = "from"
            /\ lastEvent' = "geo_ok"
            /\ UNCHANGED geoError
       ELSE /\ geoError' = TRUE
            /\ lastEvent' = "geo_failed"
            /\ UNCHANGED <<userPosition, userPositionAccuracy, destination,
                           fromLocation, routeMode>>
    /\ UNCHANGED notClient
    /\ UNCHANGED <<build, showModal, toLocation, routeCoordinates, pending,
                   routeVars>>

\* ------------------------------------------------------------- map clicks
\* click(e): pin at once, then ask for the address in the background
click(lat, lng) ==
    /\ ~showModal
    /\ BagCardinality(pending) < MaxPending
    /\ destination' = <<lat, lng>>
    /\ pending' = Issue(pending, Task("pin", lat, lng))
    /\ lastEvent' = "click"
    /\ UNCHANGED notClient
    /\ UNCHANGED <<build, uiVars, fromLocation, toLocation, routeMode,
                   routeCoordinates, routeVars>>

\* the label the click's continuation attaches: CebuMap.js stores the raw
\* display_name, LocationMarker.js the result of reverseGeocode
PinLabel(reply) == IF build = "monolith" THEN reply ELSE reverseGeocode(reply)

pinGeocodeDone(t, reply) ==
    /\ t.kind = "pin"
    /\ pending' = Settle(pending, t)
    /\ IF PinLabel(reply) # Null
       THEN /\ destination' = <<t.lat, t.lng, PinLabel(reply)>>
            /\ lastEvent' = "pin_labelled"
       ELSE /\ lastEvent' = "pin_unlabelled"
            /\ UNCHANGED destination
    /\ UNCHANGED notClient
    /\ UNCHANGED <<build, uiVars, fromLocation, toLocation, routeMode,
                   routeCoordinates, routeVars>>

\* ------------------------------------------- Set From / Set To, the hook's
\* setFromPoint storing the waypoint only once the address has arrived
hookSetFromPointDeferred ==
    \/ /\ fromLocation # Null
       /\ lastEvent' = "from_already_set"
       /\ UNCHANGED <<fromLocation, routeMode, pending>>
    \/ /\ fromLocation = Null
       /\ destination = Null
       /\ lastEvent' = "from_no_pin"
       /\ UNCHANGED <<fromLocation, routeMode, pending>>
    \/ /\ fromLocation = Null
       /\ destination # Null
       /\ BagCardinality(pending) < MaxPending
       /\ pending' = Issue(pending, Task("from", destination[1], destination[2]))
       /\ lastEvent' = "from_set"
       /\ UNCHANGED <<fromLocation, routeMode>>

\* setFromPoint answering "already set" when there is no pin
hookSetFromPointOneGuard ==
    \/ /\ (fromLocation # Null \/ destination = Null)
       /\ lastEvent' = "from_already_set"
       /\ UNCHANGED <<fromLocation, routeMode, pending>>
    \/ /\ fromLocation = Null
       /\ destination # Null
       /\ BagCardinality(pending) < MaxPending
       /\ fromLocation' = <<destination[1], destination[2],
                            LabelOr(destination, <<"From Location">>)>>
       /\ routeMode' = "from"
       /\ pending' = Issue(pending, Task("from", destination[1], destination[2]))
       /\ lastEvent' = "from_set"

\* useLocationHandlers.setFromPoint up to its first await
hookSetFromPoint ==
    \/ /\ fromLocation # Null
       /\ lastEvent' = "from_already_set"
       /\ UNCHANGED <<fromLocation, routeMode, pending>>
    \/ /\ fromLocation = Null
       /\ destination = Null
       /\ lastEvent' = "from_no_pin"
       /\ UNCHANGED <<fromLocation, routeMode, pending>>
    \/ /\ fromLocation = Null
       /\ destination # Null
       /\ BagCardinality(pending) < MaxPending
       /\ fromLocation' = <<destination[1], destination[2],
                            LabelOr(destination, <<"From Location">>)>>
       /\ routeMode' = "from"
       /\ pending' = Issue(pending, Task("from", destination[1], destination[2]))
       /\ lastEvent' = "from_set"

\* useLocationHandlers.setToPoint up to its first await
hookSetToPoint ==
    \/ /\ toLocation # Null
       /\ lastEvent' = "to_already_set"
       /\ UNCHANGED <<toLocation, routeMode, pending>>
    \/ /\ toLocation = Null
       /\ destination = Null
       /\ lastEvent' = "to_no_pin"
       /\ UNCHANGED <<toLocation, routeMode, pending>>
    \/ /\ toLocation = Null
       /\ destination # Null
       /\ BagCardinality(pending) < MaxPending
       /\ toLocation' = <<destination[1], destination[2],
                          LabelOr(destination, <<"To Location">>)>>
       /\ routeMode' = "to"
       /\ pending' = Issue(pending, Task("to", destination[1], destination[2]))
       /\ lastEvent' = "to_set"

\* ------------------------------------- Set From / Set To, CebuMap.js inline
inlineSetFromPoint ==
    IF destination # Null
    THEN /\ fromLocation' = <<destination[1], destination[2],
                              LabelOr(destination, <<"From Location">>)>>
         /\ routeMode' = "from"
         /\ lastEvent' = "from_set"
    ELSE /\ lastEvent' = "from_no_pin"
         /\ UNCHANGED <<fromLocation, routeMode>>

inlineSetToPoint ==
    IF destination # Null
    THEN /\ toLocation' = <<destination[1], destination[2],
                            LabelOr(destination, <<"To location">>)>>
         /\ routeMode' = "to"
         /\ lastEvent' = "to_set"
    ELSE /\ lastEvent' = "to_no_pin"
         /\ UNCHANGED <<toLocation, routeMode>>

\* the Set From button
setFromPoint ==
    /\ ~showModal
    /\ IF build = "hooks" THEN hookSetFromPoint
                          ELSE inlineSetFromPoint /\ UNCHANGED pending
    /\ UNCHANGED notClient
    /\ UNCHANGED <<build, uiVars, destination, toLocation, routeCoordinates,
                   routeVars>>

\* the Set To button
setToPoint ==
    /\ ~showModal
    /\ IF build = "hooks" THEN hookSetToPoint
                          ELSE inlineSetToPoint /\ UNCHANGED pending
    /\ UNCHANGED notClient
    /\ UNCHANGED <<build, uiVars, destination, fromLocation, routeCoordinates,
                   routeVars>>

\* the label upgrade calling setRouteMode for the waypoint it relabels
labelUpgradeDoneSetsMode(t, reply) ==
    /\ t.kind \in {"from", "to"}
    /\ pending' = Settle(pending, t)
    /\ LET formattedAddress == reverseGeocode(reply)
           upgraded == <<t.lat, t.lng, formattedAddress>>
       IN  IF formattedAddress = Null
           THEN /\ lastEvent' = "label_kept"
                /\ UNCHANGED <<fromLocation, toLocation, routeMode>>
           ELSE IF t.kind = "from"
           THEN /\ fromLocation' = upgraded
                /\ routeMode' = "from"
                /\ lastEvent' = "from_label_upgraded"
                /\ UNCHANGED toLocation
           ELSE /\ toLocation' = upgraded
                /\ routeMode' = "to"
                /\ lastEvent' = "to_label_upgraded"
                /\ UNCHANGED fromLocation
    /\ UNCHANGED notClient
    /\ UNCHANGED <<build, uiVars, destination, routeCoordinates, routeVars>>

\* the rest of setFromPoint / setToPoint, after await reverseGeocode(lat, lng)
labelUpgradeDone(t, reply) ==
    /\ t.kind \in {"from", "to"}
    /\ pending' = Settle(pending, t)
    /\ LET formattedAddress == reverseGeocode(reply)
           upgraded == <<t.lat, t.lng, formattedAddress>>
       IN  IF formattedAddress = Null
           THEN /\ lastEvent' = "label_kept"
                /\ UNCHANGED <<fromLocation, toLocation>>
           ELSE IF t.kind = "from"
           THEN /\ fromLocation' = upgraded
                /\ lastEvent' = "from_label_upgraded"
                /\ UNCHANGED toLocation
           ELSE /\ toLocation' = upgraded
                /\ lastEvent' = "to_label_upgraded"
                /\ UNCHANGED fromLocation
    /\ UNCHANGED notClient
    /\ UNCHANGED <<build, uiVars, destination, routeMode, routeCoordinates,
                   routeVars>>

\* ------------------------------------------------------------ Clear Route
\* clearRoute without setRouteMode(null)
clearRouteKeepsMode ==
    /\ ~showModal
    /\ routeCoordinates' = << >>
    /\ fromLocation' = Null
    /\ toLocation' = Null
    /\ pending' = MarkStale(pending, {"from", "to"})
    /\ lastEvent' = "cleared"
    /\ UNCHANGED notClient
    /\ UNCHANGED <<build, uiVars, destination, routeMode, routeVars>>

clearRoute ==
    /\ ~showModal
    /\ routeCoordinates' = << >>
    /\ fromLocation' = Null
    /\ toLocation' = Null
    /\ routeMode' = "none"
    /\ pending' = MarkStale(pending, {"from", "to"})
    /\ lastEvent' = "cleared"
    /\ UNCHANGED notClient
    /\ UNCHANGED <<build, uiVars, destination, routeVars>>

\* ------------------------------------------------- routing provider chain
\* the number of fetchRoute calls started so far; requestLog[c] is the wire
\* history of call c
CallsStarted == Len(requestLog)

\* history of what went over the wire: a request, or a response with
\* whether it was usable
LogRequest(provider) == [provider |-> provider, ev |-> "request", ok |-> FALSE]

\* coord => [coord[1], coord[0]]
SwapPair(coord) == <<coord[2], coord[1]>>

MapSwap(coordinates) == [k \in 1 .. Len(coordinates) |-> SwapPair(coordinates[k])]

\* a point the routing services may put on a road between two places
MidPoint(start, end) == <<start[1] + 1, end[2] - 1>>

\* the paths a routing service may answer with, as (lat, lng) points: the
\* exact endpoints, a path through a third point, a path snapped to the
\* nearest road, a single point and no point at all
ServicePaths(start, end) ==
    {<<start, end>>, <<start, MidPoint(start, end), end>>,
     <<MidPoint(start, end), end>>, <<start>>, << >>}

Failure(status, body) == [status |-> status, body |-> body, payload |-> << >>]

\* every way a request can fail: fetch rejects, a non-2xx status, a body that
\* is not JSON, a body without the list of routes, an empty list, a first
\* route without its geometry
FailureReplies ==
    {Failure("network_error", "none"), Failure("http_error", "none"),
     Failure("ok", "not_json"), Failure("ok", "list_missing"),
     Failure("ok", "list_empty"), Failure("ok", "geometry_missing")}

\* OSRM answers with geometry.coordinates, longitude first
OsrmReplies(start, end) ==
    FailureReplies \cup
    {[status |-> "ok", body |-> "route", payload |-> MapSwap(path)] :
        path \in ServicePaths(start, end)}

\* GraphHopper answers with paths[0].points, an encoded polyline; a first
\* path without its points makes decodePolyline throw a TypeError
GraphHopperReplies(start, end) ==
    FailureReplies \cup {Failure("ok", "points_missing")} \cup
    {[status |-> "ok", body |-> "route", payload |-> encodePolyline(path)] :
        path \in ServicePaths(start, end)}

\* response.ok, the body parses, the list is there and not empty and its
\* first element can be read without a TypeError
Usable(reply) == reply.status = "ok" /\ reply.body = "route"

LogResponse(provider, reply) ==
    [provider |-> provider, ev |-> "response", ok |-> Usable(reply)]

Logged(call, entry) == [requestLog EXCEPT ![call] = Append(@, entry)]

\* history: the response of provider to the call f, as fetchRoute received it
Handled(f, provider, reply) ==
    [call |-> f.call, provider |-> provider, status |-> reply.status,
     body |-> reply.body, payload |-> reply.payload,
     start |-> f.start, end |-> f.end]

\* showRoute, and fetchRoute up to its first await
showRoute ==
    /\ ~showModal
    /\ IF fromLocation # Null /\ toLocation # Null
       THEN /\ CallsStarted < MaxCalls
            /\ LET call == CallsStarted + 1
                   start == <<fromLocation[1], fromLocation[2]>>
                   end == <<toLocation[1], toLocation[2]>>
               IN  /\ fetches' = Append(fetches,
                          [call |-> call, start |-> start, end |-> end, pc |-> "osrm"])
                   /\ requestLog' = Append(requestLog, <<LogRequest("osrm")>>)
                   /\ UNCHANGED lastReply
            /\ lastEvent' = "route_requested"
       ELSE /\ lastEvent' = "route_needs_both"
            /\ UNCHANGED routeVars
    /\ UNCHANGED notClient
    /\ UNCHANGED <<build, uiVars, destination, fromLocation, toLocation,
                   routeMode, routeCoordinates, pending>>

\* fetchRoute asking GraphHopper too after OSRM has given a route
osrmResponseAlwaysEscalates(i, reply) ==
    /\ fetches[i].pc = "osrm"
    /\ lastReply' = Handled(fetches[i], "osrm", reply)
    /\ LET f == fetches[i]
           answered == Logged(f.call, LogResponse("osrm", reply))
       IN  /\ fetches' = [fetches EXCEPT ![i].pc = "graphhopper"]
           /\ requestLog' = [answered EXCEPT ![f.call] =
                                 Append(@, LogRequest("graphhopper"))]
           /\ IF Usable(reply)
              THEN /\ routeCoordinates' = MapSwap(reply.payload)
                   /\ lastEvent' = "route_osrm"
              ELSE /\ lastEvent' = "osrm_failed"
                   /\ UNCHANGED routeCoordinates
    /\ UNCHANGED notClient
    /\ UNCHANGED <<build, uiVars, destination, fromLocation, toLocation,
                   routeMode, pending>>

\* fetchRoute asking OSRM a second time after a network error
osrmResponseRetries(i, reply) ==
    /\ fetches[i].pc = "osrm"
    /\ lastReply' = Handled(fetches[i], "osrm", reply)
    /\ LET f == fetches[i]
           answered == Logged(f.call, LogResponse("osrm", reply))
           again == reply.status = "network_error" /\ Len(requestLog[f.call]) = 1
       IN  IF Usable(reply)
           THEN /\ routeCoordinates' = MapSwap(reply.payload)
                /\ fetches' = Remove(fetches, i)
                /\ requestLog' = answered
                /\ lastEvent' = "route_osrm"
           ELSE /\ fetches' = [fetches EXCEPT ![i].pc =
                                  IF again THEN "osrm" ELSE "graphhopper"]
                /\ requestLog' = [answered EXCEPT ![f.call] =
                      Append(@, LogRequest(IF again THEN "osrm" ELSE "graphhopper"))]
                /\ lastEvent' = "osrm_failed"
                /\ UNCHANGED routeCoordinates
    /\ UNCHANGED notClient
    /\ UNCHANGED <<build, uiVars, destination, fromLocation, toLocation,
                   routeMode, pending>>

\* fetchRoute reading geometry.coordinates outside its try block: a first
\* route without geometry ends the call with a rejected promise
osrmResponseUncaught(i, reply) ==
    /\ fetches[i].pc = "osrm"
    /\ lastReply' = Handled(fetches[i], "osrm", reply)
    /\ LET f == fetches[i]
           answered == Logged(f.call, LogResponse("osrm", reply))
       IN  IF Usable(reply)
           THEN /\ routeCoordinates' = MapSwap(reply.payload)
                /\ fetches' = Remove(fetches, i)
                /\ requestLog' = answered
                /\ lastEvent' = "route_osrm"
           ELSE IF reply.body = "geometry_missing"
           THEN /\ fetches' = Remove(fetches, i)
                /\ requestLog' = answered
                /\ lastEvent' = "route_rejected"
                /\ UNCHANGED routeCoordinates
           ELSE /\ fetches' = [fetches EXCEPT ![i].pc = "graphhopper"]
                /\ requestLog' = [answered EXCEPT ![f.call] =
                                      Append(@, LogRequest("graphhopper"))]
                /\ lastEvent' = "osrm_failed"
                /\ UNCHANGED routeCoordinates
    /\ UNCHANGED notClient
    /\ UNCHANGED <<build, uiVars, destination, fromLocation, toLocation,
                   routeMode, pending>>

\* fetchRoute storing the coordinates of OSRM as they came, longitude first
osrmResponseNoSwap(i, reply) ==
    /\ fetches[i].pc = "osrm"
    /\ lastReply' = Handled(fetches[i], "osrm", reply)
    /\ LET f == fetches[i]
           answered == Logged(f.call, LogResponse("osrm", reply))
       IN  IF Usable(reply)
           THEN /\ routeCoordinates' = reply.payload
                /\ fetches' = Remove(fetches, i)
                /\ requestLog' = answered
                /\ lastEvent' = "route_osrm"
           ELSE /\ fetches' = [fetches EXCEPT ![i].pc = "graphhopper"]
                /\ requestLog' = [answered EXCEPT ![f.call] =
                                      Append(@, LogRequest("graphhopper"))]
                /\ lastEvent' = "osrm_failed"
                /\ UNCHANGED routeCoordinates
    /\ UNCHANGED notClient
    /\ UNCHANGED <<build, uiVars, destination, fromLocation, toLocation,
                   routeMode, pending>>

\* fetchRoute from the answer of OSRM to its next await or its end
osrmResponse(i, reply) ==
    /\ fetches[i].pc = "osrm"
    /\ lastReply' = Handled(fetches[i], "osrm", reply)
    /\ LET f == fetches[i]
           answered == Logged(f.call, LogResponse("osrm", reply))
       IN  IF Usable(reply)
           THEN /\ routeCoordinates' = MapSwap(reply.payload)
                /\ fetches' = Remove(fetches, i)
                /\ requestLog' = answered
                /\ lastEvent' = "route_osrm"
           ELSE /\ fetches' = [fetches EXCEPT ![i].pc = "graphhopper"]
                /\ requestLog' = [answered EXCEPT ![f.call] =
                                      Append(@, LogRequest("graphhopper"))]
                /\ lastEvent' = "osrm_failed"
                /\ UNCHANGED routeCoordinates
    /\ UNCHANGED notClient
    /\ UNCHANGED <<build, uiVars, destination, fromLocation, toLocation,
                   routeMode, pending>>

\* fetchRoute drawing the straight line whatever GraphHopper answers
graphHopperResponseStraight(i, reply) ==
    /\ fetches[i].pc = "graphhopper"
    /\ lastReply' = Handled(fetches[i], "graphhopper", reply)
    /\ LET f == fetches[i]
       IN  /\ requestLog' = Logged(f.call, LogResponse("graphhopper", reply))
           /\ fetches' = Remove(fetches, i)
           /\ routeCoordinates' = <<f.start, f.end>>
           /\ lastEvent' = IF Usable(reply) THEN "route_graphhopper"
                                            ELSE "route_straight_line"
    /\ UNCHANGED notClient
    /\ UNCHANGED <<build, uiVars, destination, fromLocation, toLocation,
                   routeMode, pending>>

\* fetchRoute drawing the fallback line from end to start
graphHopperResponseReversed(i, reply) ==
    /\ fetches[i].pc = "graphhopper"
    /\ lastReply' = Handled(fetches[i], "graphhopper", reply)
    /\ LET f == fetches[i]
       IN  /\ requestLog' = Logged(f.call, LogResponse("graphhopper", reply))
           /\ fetches' = Remove(fetches, i)
           /\ IF Usable(reply)
              THEN /\ routeCoordinates' = decodePolyline(reply.payload)
                   /\ lastEvent' = "route_graphhopper"
              ELSE /\ routeCoordinates' = <<f.end, f.start>>
                   /\ lastEvent' = "route_straight_line"
    /\ UNCHANGED notClient
    /\ UNCHANGED <<build, uiVars, destination, fromLocation, toLocation,
                   routeMode, pending>>

\* fetchRoute from the answer of GraphHopper to its end
graphHopperResponse(i, reply) ==
    /\ fetches[i].pc = "graphhopper"
    /\ lastReply' = Handled(fetches[i], "graphhopper", reply)
    /\ LET f == fetches[i]
       IN  /\ requestLog' = Logged(f.call, LogResponse("graphhopper", reply))
           /\ fetches' = Remove(fetches, i)
           /\ IF Usable(reply)
              THEN /\ routeCoordinates' = decodePolyline(reply.payload)
                   /\ lastEvent' = "route_graphhopper"
              ELSE /\ routeCoordinates' = <<f.start, f.end>>
                   /\ lastEvent' = "route_straight_line"
    /\ UNCHANGED notClient
    /\ UNCHANGED <<build, uiVars, destination, fromLocation, toLocation,
                   routeMode, pending>>

\* --------------------------------------------------------- specification
Next ==
    \/ useGeolocation
    \/ useManualSelection
    \/ \E loc \in GetLocationResults : getLocationResolved(loc)
    \/ \E p \in Coords : click(p[1], p[2])
    \/ \E t \in BagToSet(pending) :
          \E reply \in GeoReplies(t.lat, t.lng) : pinGeocodeDone(t, reply)
    \/ setFromPoint
    \/ setToPoint
    \/ \E t \in BagToSet(pending) :
          \E reply \in GeoReplies(t.lat, t.lng) : labelUpgradeDone(t, reply)
    \/ clearRoute

Spec == Init /\ [][Next]_vars

\* The provider chain is checked from the states in which both waypoints
\* are set: the modal dismissed by "Choose on Map", a place clicked and made
\* From, a place clicked and made To, every reverse-geocode answered by a
\* failure.
Waypoint(p, label) == <<p[1], p[2], <<label>>>>

\* both waypoints set, nothing in flight; a state of Spec
RouteStart ==
    /\ build \in {"monolith", "hooks"}
    /\ showModal = FALSE
    /\ geoPending = FALSE
    /\ userPosition = Null
    /\ userPositionAccuracy = NoAccuracy
    /\ geoError = FALSE
    /\ \E p \in Coords, q \in Coords :
          /\ fromLocation = Waypoint(p, "From Location")
          /\ toLocation = Waypoint(q, IF build = "hooks" THEN "To Location"
                                                         ELSE "To location")
          /\ destination = q
    /\ routeMode = "to"
    /\ routeCoordinates = << >>
    /\ pending = EmptyBag
    /\ lastEvent = IF build = "hooks" THEN "label_kept" ELSE "pin_unlabelled"

InitRoute ==
    /\ InitServer
    /\ InitCodec
    /\ InitFormat
    /\ InitSuggest
    /\ InitEnv /\ InitDecode /\ InitLocate
    /\ RouteStart
    /\ build = "monolith"
    /\ fetches = << >>
    /\ requestLog = << >>
    /\ lastReply = NoReply

NextRoute ==
    \/ showRoute
    \/ \E i \in 1 .. Len(fetches) :
          \E reply \in OsrmReplies(fetches[i].start, fetches[i].end) :
             osrmResponse(i, reply)
    \/ \E i \in 1 .. Len(fetches) :
          \E reply \in GraphHopperReplies(fetches[i].start, fetches[i].end) :
             graphHopperResponse(i, reply)
    \/ clearRoute

SpecRoute == InitRoute /\ [][NextRoute]_vars

\* ------------------------------------------------ the polyline round trip
\* The decoder is exercised on the polylines a routing service produces:
\* the service encodes a path, the client decodes what it received.
\* Coordinates in 10^-5 degree: the poles and the date line, the values
\* around the end of a one-character group, places in Cebu.
SampleLats == {-9000000, -17, 0, 16, 1031730}

SampleLngs == {-18000000, -1, 15, 12390570}

SamplePoints == {<<lat, lng>> : lat \in SampleLats, lng \in SampleLngs}

SamplePaths == UNION {[1 .. n -> SamplePoints] : n \in 0 .. MaxPathLen}

\* the routing service turns its path into paths[0].points
serviceEncodes ==
    /\ codecPc = "path"
    /\ codecStr' = encodePolyline(codecSeq)
    /\ codecPc' = "encoded"
    /\ UNCHANGED <<notCodec, codecSeq, codecOut>>

\* const coordinates = decodePolyline(points)
decodeReceived ==
    /\ codecPc = "encoded"
    /\ codecOut' = decodePolyline(codecStr)
    /\ codecPc' = "decoded"
    /\ UNCHANGED <<notCodec, codecSeq, codecStr>>

InitCodecRun ==
    /\ InitClient
    /\ build = "monolith"
    /\ InitServer
    /\ InitFormat
    /\ InitSuggest
    /\ InitEnv /\ InitDecode /\ InitLocate
    /\ codecPc = "path"
    /\ codecSeq \in SamplePaths
    /\ codecStr = << >>
    /\ codecOut = << >>

NextCodec == serviceEncodes \/ decodeReceived

SpecCodec == InitCodecRun /\ [][NextCodec]_vars

\* ------------------------------------------- the reverse-geocoding endpoint
\* POST /api/reverse.  Coordinates of a request are integers in units of
\* 10^-7 degree, a cache key is the pair of coordinates rounded to 10^-6
\* degree.  Time is in milliseconds.  Cached payloads are kept by their
\* display_name; the address and raw fields travel with it unread.

\* setTimeout(() => CACHE.delete(key), 60 * 1000)
TTL == 60 * 1000

\* the clock is observed every half TTL
ClockStep == TTL \div 2

\* x.toFixed(6) of x given in 10^-7 degree, as a number of 10^-6 degree
ToFixed6(x) == IF x >= 0 THEN (x + 5) \div 10 ELSE 0 - (((0 - x) + 5) \div 10)

CacheKey(lat, lng) == <<ToFixed6(lat), ToFixed6(lng)>>

\* Number(body.lat), Number(body.lng) of the requests received: a body
\* without numbers and three nearby places, two of which share their key
ReverseBodies == {<<NaN, NaN>>, <<1004, 1230>>, <<1005, 1230>>, <<1012, 1230>>}

\* what Nominatim can do with a request: the connection fails, a non-2xx
\* status, a body that is not JSON, JSON without display_name, an address
UpstreamReplies(lat, lng) ==
    {[status |-> "network_error", body |-> "none", display_name |-> << >>],
     [status |-> "http_error", body |-> "none", display_name |-> << >>],
     [status |-> "ok", body |-> "not_json", display_name |-> << >>],
     [status |-> "ok", body |-> "json", display_name |-> << >>],
     [status |-> "ok", body |-> "json", display_name |-> DisplayName(lat, lng)]}

Served(op, status, key, display_name) ==
    [op |-> op, status |-> status, key |-> key, at |-> now,
     display_name |-> display_name]

\* CACHE.set(key, payload)
MapSet(map, key, value) ==
    [k \in DOMAIN map \cup {key} |-> IF k = key THEN value ELSE map[k]]

\* CACHE.delete(key)
MapDelete(map, key) == [k \in DOMAIN map \ {key} |-> map[k]]

\* the handler from the request to its first await of the network, or to
\* its response
POST(body) ==
    /\ LET lat == body[1]
           lng == body[2]
           key == CacheKey(lat, lng)
       IN  IF lat = NaN \/ lng = NaN
           THEN /\ lastServed' = Served("bad_request", 400, << >>, << >>)
                /\ UNCHANGED requests
           ELSE IF key \in DOMAIN CACHE
           THEN /\ lastServed' = Served("lookup_hit", 200, key,
                                        CACHE[key].display_name)
                /\ UNCHANGED requests
           ELSE /\ BagCardinality(requests) + BagCardinality(timers)
                      < MaxOutstanding
                /\ requests' = Issue(requests,
                       [key |-> key, lat |-> lat, lng |-> lng, pc |-> "fetch",
                        body |-> "none", display_name |-> << >>])
                /\ lastServed' = Served("lookup_miss", 0, key, << >>)
    /\ UNCHANGED <<notServer, now, CACHE, timers>>

\* a handler that stores an empty payload under the key when Nominatim
\* answers with a non-2xx status
fetchSettledStoresError(r, reply) ==
    /\ r.pc = "fetch"
    /\ IF reply.status = "network_error"
       THEN /\ requests' = Settle(requests, r)
            /\ lastServed' = Served("exception", 500, r.key, << >>)
            /\ UNCHANGED CACHE
       ELSE IF reply.status # "ok"
       THEN /\ requests' = Settle(requests, r)
            /\ CACHE' = MapSet(CACHE, r.key, [display_name |-> << >>])
            /\ lastServed' = Served("upstream_error", 502, r.key, << >>)
       ELSE /\ requests' = Issue(Settle(requests, r),
                   [r EXCEPT !.pc = "json", !.body = reply.body,
                             !.display_name = reply.display_name])
            /\ lastServed' = Served("upstream_ok", 0, r.key, << >>)
            /\ UNCHANGED CACHE
    /\ UNCHANGED <<notServer, now, timers>>

\* await fetch(url, ...) settles
fetchSettled(r, reply) ==
    /\ r.pc = "fetch"
    /\ IF reply.status = "network_error"
       THEN /\ requests' = Settle(requests, r)
            /\ lastServed' = Served("exception", 500, r.key, << >>)
       ELSE IF reply.status # "ok"
       THEN /\ requests' = Settle(requests, r)
            /\ lastServed' = Served("upstream_error", 502, r.key, << >>)
       ELSE /\ requests' = Issue(Settle(requests, r),
                   [r EXCEPT !.pc = "json", !.body = reply.body,
                             !.display_name = reply.display_name])
            /\ lastServed' = Served("upstream_ok", 0, r.key, << >>)
    /\ UNCHANGED <<notServer, now, CACHE, timers>>

\* await resp.json() settles: store, schedule the eviction, answer
jsonSettled(r) ==
    /\ r.pc = "json"
    /\ requests' = Settle(requests, r)
    /\ IF r.body = "not_json"
       THEN /\ lastServed' = Served("exception", 500, r.key, << >>)
            /\ UNCHANGED <<CACHE, timers>>
       ELSE /\ CACHE' = MapSet(CACHE, r.key, [display_name |-> r.display_name])
            /\ timers' = Issue(timers, [key |-> r.key, due |-> now + TTL])
            /\ lastServed' = Served("stored", 200, r.key, r.display_name)
    /\ UNCHANGED <<notServer, now>>

\* the callback of setTimeout: () => CACHE.delete(key); it runs at its due
\* time or any time later
timerFired(t) ==
    /\ now >= t.due
    /\ timers' = Settle(timers, t)
    /\ CACHE' = MapDelete(CACHE, t.key)
    /\ lastServed' = Served("evicted", 0, t.key, << >>)
    /\ UNCHANGED <<notServer, now, requests>>

\* time passes
tick ==
    /\ now < MaxTicks * ClockStep
    /\ now' = now + ClockStep
    /\ lastServed' = [op |-> "tick", status |-> 0, key |-> << >>,
                      at |-> now + ClockStep, display_name |-> << >>]
    /\ UNCHANGED <<notServer, CACHE, timers, requests>>

InitCache ==
    /\ InitClient
    /\ build = "hooks"
    /\ InitCodec
    /\ InitFormat
    /\ InitSuggest
    /\ InitEnv /\ InitDecode /\ InitLocate
    /\ InitServer

NextCache ==
    \/ \E body \in ReverseBodies : POST(body)
    \/ \E r \in BagToSet(requests) :
          \E reply \in UpstreamReplies(r.lat, r.lng) : fetchSettled(r, reply)
    \/ \E r \in BagToSet(requests) : jsonSettled(r)
    \/ \E t \in BagToSet(timers) : timerFired(t)
    \/ tick

SpecCache == InitCache /\ [][NextCache]_vars

\* -------------------------------------------- the formatter, by character
\* formatAddress on strings: a string is the sequence of its characters.
UpperCase ==
    <<"A", "B", "C", "D", "E", "F", "G", "H", "I", "J", "K", "L", "M",
      "N", "O", "P", "Q", "R", "S", "T", "U", "V", "W", "X", "Y", "Z">>

LowerCase ==
    <<"a", "b", "c", "d", "e", "f", "g", "h", "i", "j", "k", "l", "m",
      "n", "o", "p", "q", "r", "s", "t", "u", "v", "w", "x", "y", "z">>

Digits == {"0", "1", "2", "3", "4", "5", "6", "7", "8", "9"}

\* the i flag of the patterns
Lower(c) ==
    IF \E i \in 1 .. 26 : UpperCase[i] = c
    THEN LowerCase[CHOOSE i \in 1 .. 26 : UpperCase[i] = c]
    ELSE c

LowerAll(str) == [i \in 1 .. Len(str) |-> Lower(str[i])]

\* fullAddress.split(',')
RECURSIVE split(_)
split(str) ==
    IF \E i \in 1 .. Len(str) : str[i] = ","
    THEN LET i == CHOOSE i \in 1 .. Len(str) :
                     str[i] = "," /\ \A j \in 1 .. i - 1 : str[j] # ","
         IN  <<SubSeq(str, 1, i - 1)>> \o split(SubSeq(str, i + 1, Len(str)))
    ELSE <<str>>

\* part.trim()
trim(part) ==
    LET inked == {i \in 1 .. Len(part) : part[i] # " "}
    IN  IF inked = {} THEN << >>
        ELSE SubSeq(part, CHOOSE i \in inked : \A j \in inked : i <= j,
                          CHOOSE i \in inked : \A j \in inked : i >= j)

\* /^word$/i
TestWhole(part, word) == LowerAll(part) = word

\* /^word/i
TestPrefix(part, word) ==
    Len(part) >= Len(word) /\ LowerAll(SubSeq(part, 1, Len(word))) = word

\* /^\d{4,}$/
TestPostal(part) == Len(part) >= 4 /\ \A i \in 1 .. Len(part) : part[i] \in Digits

\* unwantedPatterns.some(pattern => pattern.test(part))
testUnwanted(part) ==
    \/ TestPostal(part)
    \/ TestWhole(part, <<"p", "h", "i", "l", "i", "p", "p", "i", "n", "e">>)
    \/ TestWhole(part, <<"p", "h", "i", "l", "i", "p", "p", "i", "n", "e", "s">>)
    \/ TestWhole(part, <<"c", "e", "b", "u">>)
    \/ TestPrefix(part, <<"r", "e", "g", "i", "o", "n", " ", "v", "i", "i">>)
    \/ TestPrefix(part, <<"c", "e", "n", "t", "r", "a", "l", " ", "v", "i", "s", "a", "y",
        "a", "s">>)
    \/ TestWhole(part, <<"v", "i", "s", "a", "y", "a", "s">>)

\* parts.join(', ')
RECURSIVE join(_)
join(parts) ==
    IF parts = << >> THEN << >>
    ELSE IF Len(parts) = 1 THEN parts[1]
    ELSE parts[1] \o <<",", " ">> \o join(Tail(parts))

\* the trimmed, non-empty parts of an address
partsOf(fullAddress) ==
    SelectSeq([i \in 1 .. Len(split(fullAddress)) |-> trim(split(fullAddress)[i])],
              LAMBDA part : part # << >>)

\* formatAddress keeping four parts
formatAddressTextKeepsFour(fullAddress) ==
    IF fullAddress = << >> THEN Null
    ELSE LET parts == partsOf(fullAddress)
             filtered == SelectSeq(parts, LAMBDA part : ~testUnwanted(part))
             relevant == slice(filtered, 4)
         IN  IF Len(relevant) >= 2 THEN join(relevant)
             ELSE IF Len(relevant) = 1 THEN relevant[1]
             ELSE IF join(slice(parts, 2)) # << >> THEN join(slice(parts, 2))
             ELSE fullAddress

\* formatAddress without its last resort
formatAddressTextNoLastResort(fullAddress) ==
    IF fullAddress = << >> THEN Null
    ELSE LET parts == partsOf(fullAddress)
             filtered == SelectSeq(parts, LAMBDA part : ~testUnwanted(part))
             relevant == slice(filtered, 3)
         IN  IF Len(relevant) >= 2 THEN join(relevant)
             ELSE IF Len(relevant) = 1 THEN relevant[1]
             ELSE join(slice(parts, 2))

\* formatAddress(fullAddress); null and the empty string are both << >>
formatAddressText(fullAddress) ==
    IF fullAddress = << >> THEN Null
    ELSE LET parts == partsOf(fullAddress)
             filtered == SelectSeq(parts, LAMBDA part : ~testUnwanted(part))
             relevant == slice(filtered, 3)
         IN  IF Len(relevant) >= 2 THEN join(relevant)
             ELSE IF Len(relevant) = 1 THEN relevant[1]
             ELSE IF join(slice(parts, 2)) # << >> THEN join(slice(parts, 2))
             ELSE fullAddress

\* the example of the formatter's header comment
ExampleAddress ==
    <<"1", "2", "3", " ", "C", "o", "l", "o", "n", " ", "S", "t", "r",
      "e", "e", "t", ",", " ", "B", "a", "r", "a", "n", "g", "a", "y",
      " ", "K", "a", "l", "u", "n", "a", "s", "a", "n", ",", " ", "C",
      "e", "b", "u", " ", "C", "i", "t", "y", ",", " ", "C", "e", "b",
      "u", ",", " ", "C", "e", "n", "t", "r", "a", "l", " ", "V", "i",
      "s", "a", "y", "a", "s", ",", " ", "6", "0", "0", "0", ",", " ",
      "P", "h", "i", "l", "i", "p", "p", "i", "n", "e", "s">>

ExampleOutput ==
    <<"1", "2", "3", " ", "C", "o", "l", "o", "n", " ", "S", "t", "r",
      "e", "e", "t", ",", " ", "B", "a", "r", "a", "n", "g", "a", "y",
      " ", "K", "a", "l", "u", "n", "a", "s", "a", "n", ",", " ", "C",
      "e", "b", "u", " ", "C", "i", "t", "y">>

\* an address with more than three parts that pass the patterns
LongAddress ==
    <<"C", "a", "r", "b", "o", "n", " ", "M", "a", "r", "k", "e", "t",
    ",", " ", "M", "a", "g", "a", "l", "l", "a", "n", "e", "s", " ",
    "S", "t", "r", "e", "e", "t", ",", " ", "E", "r", "m", "i", "t",
    "a", ",", " ", "C", "e", "b", "u", " ", "C", "i", "t", "y", ",",
    " ", "C", "e", "b", "u">>

\* what lies between two commas of the addresses tried: a street with its
\* number, a city after a blank, the province in lower case between blanks,
\* a street named after the region, a postal code, a short number, a blank
SampleSegments ==
    {<<"1", "2", "3", " ", "C", "o", "l", "o", "n", " ", "S", "t", "r",
      "e", "e", "t">>,
     <<" ", "C", "e", "b", "u", " ", "C", "i", "t", "y">>,
     <<" ", "c", "e", "b", "u", " ">>,
     <<" ", "C", "e", "n", "t", "r", "a", "l", " ", "V", "i", "s", "a",
      "y", "a", "s", " ", "A", "v", "e">>,
     <<" ", "6", "0", "0", "0">>,
     <<" ", "6", "0", "0">>,
     <<" ">>}

RECURSIVE Concat(_)
Concat(segments) ==
    IF segments = << >> THEN << >>
    ELSE IF Len(segments) = 1 THEN segments[1]
    ELSE segments[1] \o <<",">> \o Concat(Tail(segments))

\* the characters of the words of the map component's addresses
Spell ==
    "Colon Street" :> <<"C", "o", "l", "o", "n", " ", "S", "t", "r", "e", "e", "t">> @@
    "Osmena Blvd" :> <<"O", "s", "m", "e", "n", "a", " ", "B", "l", "v", "d">> @@
    "Mango Ave" :> <<"M", "a", "n", "g", "o", " ", "A", "v", "e">> @@
    "Jones Ave" :> <<"J", "o", "n", "e", "s", " ", "A", "v", "e">> @@
    "Cebu City" :> <<"C", "e", "b", "u", " ", "C", "i", "t", "y">> @@
    "Cebu" :> <<"C", "e", "b", "u">> @@
    "Central Visayas" :> <<"C", "e", "n", "t", "r", "a", "l", " ", "V", "i", "s", "a", "y",
                       "a", "s">> @@
    "6000" :> <<"6", "0", "0", "0">> @@
    "Philippines" :> <<"P", "h", "i", "l", "i", "p", "p", "i", "n", "e", "s">>

SpellAll(text) == join([i \in 1 .. Len(text) |-> Spell[text[i]]])

\* the addresses tried: none, the two examples, the answers of the geocoding
\* service and every string of up to MaxSegments sample segments
SampleAddresses ==
    {<< >>, ExampleAddress, LongAddress}
    \cup {SpellAll(DisplayName(lat, 123)) : lat \in 9 .. 12}
    \cup {Concat(segments) :
            segments \in UNION {[1 .. n -> SampleSegments] : n \in 1 .. MaxSegments}}

\* const formattedAddress = formatAddress(data.display_name)
formatRuns ==
    /\ fmtPc = "raw"
    /\ fmt' = [fmt EXCEPT !.formattedAddress = formatAddressText(fmtIn),
                          !.pc = "formatted"]
    /\ UNCHANGED notFormat

InitFormatRun ==
    /\ InitClient
    /\ build = "hooks"
    /\ InitServer
    /\ InitCodec
    /\ fmt \in {[pc |-> "raw", fullAddress |-> fullAddress,
                  formattedAddress |-> << >>] : fullAddress \in SampleAddresses}
    /\ InitSuggest
    /\ InitEnv /\ InitDecode /\ InitLocate

NextFormat == formatRuns

SpecFormat == InitFormatRun /\ [][NextFormat]_vars

\* ------------------------------------------------------ route suggestion
\* what the hook may be given as From and as To: nothing, a place with its
\* label, a place on the equator, a place on the prime meridian and a
\* latitude without its longitude
SuggestFroms ==
    {Null, <<1031730, 12390570, <<"Colon Street">>>>,
     <<0, 12390570, <<"Equator">>>>, <<1031730>>}

SuggestTos == {Null, <<1031260, 12391810, <<"Mango Ave">>>>, <<1031260, 0>>}

\* !location[k]: the element is not there, or it is the number 0
Falsy(location, k) == Len(location) <= k \/ location[k + 1] = 0

NoResponse ==
    [status |-> 0, success |-> FALSE, suggestion |-> << >>,
     error |-> << >>, details |-> << >>]

\* new Response(JSON.stringify({ error, details }), { status })
ErrorResponse(status, error, details) ==
    [status |-> status, success |-> FALSE, suggestion |-> << >>,
     error |-> error, details |-> details]

\* new Response(JSON.stringify({ success: true, suggestion, usage }), ...)
SuccessResponse(suggestion) ==
    [status |-> 200, success |-> TRUE, suggestion |-> suggestion,
     error |-> << >>, details |-> << >>]

\* what openai.chat.completions.create may end with: the connection fails,
\* the service answers with an error status, a completion without choices,
\* a content that is not JSON, and a JSON object given by the names of its
\* fields
ProviderReplies ==
    {[kind |-> "connection_error", fields |-> << >>,
      message |-> <<"Connection error.">>],
     [kind |-> "status_error", fields |-> << >>,
      message |-> <<"429 Rate limit reached">>],
     [kind |-> "no_choices", fields |-> << >>,
      message |-> <<"Cannot read properties of undefined">>],
     [kind |-> "not_json", fields |-> << >>,
      message |-> <<"Unexpected token">>]}
    \cup {[kind |-> "json", fields |-> fields, message |-> << >>] :
            fields \in {<<"route_summary", "steps", "alternative_routes">>,
                        <<"route_summary", "steps">>, <<"route_summary">>,
                        <<"steps">>, <<"error">>}}

\* history: a call of handleGetAISuggestion has returned
Finished(state, r, fetched, outcome, message) ==
    [state EXCEPT
       !.prev = state.last,
       !.last =
          [call |-> r.call, since |-> r.since, from |-> r.from, to |-> r.to,
           fetched |-> fetched, asked |-> r.asked, reply |-> r.reply,
           content |-> r.content, status |-> r.response.status,
           outcome |-> outcome, message |-> message]]

\* a call, with (as history) the last call that had returned when it began
NewRequest ==
    [call |-> suggestCalls + 1, since |-> lastSuggest.call,
     from |-> fromLocation, to |-> toLocation,
     pc |-> "posted", asked |-> FALSE, reply |-> "none", content |-> << >>,
     response |-> NoResponse]

\* handleGetAISuggestion up to the fetch of getAISuggestion
handleGetAISuggestion ==
    /\ suggestCalls < MaxSuggests
    /\ suggest' =
          IF fromLocation = Null \/ toLocation = Null
          THEN Finished(
                  [suggest EXCEPT
                     !.calls = @ + 1,
                     !.aiError = <<"Please set both From and To locations first">>],
                  NewRequest, FALSE, "error",
                  <<"Please set both From and To locations first">>)
          ELSE [suggest EXCEPT !.calls = @ + 1,
                               !.loadingAI = TRUE,
                               !.aiError = Null,
                               !.requests = @ \cup {NewRequest}]
    /\ UNCHANGED notSuggest

\* the request r replaced by what the server made of it
Replaced(r, q) == [suggest EXCEPT !.requests = (@ \ {r}) \cup {q}]

Respond(r, response) ==
    Replaced(r, [r EXCEPT !.pc = "responded", !.response = response])

\* the server asking the text service before it looks at the locations
suggestPOSTAsksFirst(r, files) ==
    /\ r \in suggestRequests
    /\ r.pc = "posted"
    /\ suggest' =
          IF files = "unreadable"
          THEN Respond(r, ErrorResponse(500, <<"Failed to get route suggestion">>,
                                        <<"ENOENT: no such file or directory">>))
          ELSE Replaced(r, [r EXCEPT !.pc = "openai", !.asked = TRUE])
    /\ UNCHANGED notSuggest

\* POST of Routes/suggest from the request to its response or to the await
\* of openai.chat.completions.create
suggestPOST(r, files) ==
    /\ r \in suggestRequests
    /\ r.pc = "posted"
    /\ suggest' =
          IF r.from = Null \/ r.to = Null
          THEN Respond(r, ErrorResponse(400,
                   <<"fromLocation and toLocation are required">>, << >>))
          ELSE IF Falsy(r.from, 0) \/ Falsy(r.from, 1)
                    \/ Falsy(r.to, 0) \/ Falsy(r.to, 1)
          THEN Respond(r, ErrorResponse(400, <<"Invalid coordinates format">>,
                                        << >>))
          ELSE IF files = "unreadable"
          THEN Respond(r, ErrorResponse(500, <<"Failed to get route suggestion">>,
                                        <<"ENOENT: no such file or directory">>))
          ELSE Replaced(r, [r EXCEPT !.pc = "openai", !.asked = TRUE])
    /\ UNCHANGED notSuggest

\* POST of Routes/suggest from the end of openai.chat.completions.create to
\* its response
openaiSettled(r, reply) ==
    /\ r \in suggestRequests
    /\ r.pc = "openai"
    /\ LET answered == [r EXCEPT !.reply = reply.kind, !.content = reply.fields]
           response ==
               IF reply.kind = "json" THEN SuccessResponse(reply.fields)
               ELSE ErrorResponse(500, <<"Failed to get route suggestion">>,
                                  reply.message)
       IN  suggest' = Replaced(r, [answered EXCEPT !.pc = "responded",
                                                   !.response = response])
    /\ UNCHANGED notSuggest

\* `AI API error: ${response.status}`
ApiErrorMessage(status) == <<"AI API error", ToString(status)>>

\* what getAISuggestion throws for a response, nothing if it returns
Thrown(response) ==
    IF response.status \notin 200 .. 299 THEN ApiErrorMessage(response.status)
    ELSE IF response.success THEN << >>
    ELSE IF response.error # << >> THEN response.error
    ELSE <<"Failed to get suggestion">>

\* handleGetAISuggestion without its finally block after an error
suggestResponseKeepsLoading(r) ==
    /\ r \in suggestRequests
    /\ r.pc = "responded"
    /\ suggest' =
          IF Thrown(r.response) = << >>
          THEN Finished([suggest EXCEPT !.requests = @ \ {r},
                                        !.aiSuggestion = r.response.suggestion,
                                        !.loadingAI = FALSE],
                        r, TRUE, "suggestion", << >>)
          ELSE Finished([suggest EXCEPT !.requests = @ \ {r},
                                        !.aiError = Thrown(r.response)],
                        r, TRUE, "error", Thrown(r.response))
    /\ UNCHANGED notSuggest

\* getAISuggestion from the response of its fetch to its end, and
\* handleGetAISuggestion from there to its end
suggestResponse(r) ==
    /\ r \in suggestRequests
    /\ r.pc = "responded"
    /\ suggest' =
          IF Thrown(r.response) = << >>
          THEN Finished([suggest EXCEPT !.requests = @ \ {r},
                                        !.aiSuggestion = r.response.suggestion,
                                        !.loadingAI = FALSE],
                        r, TRUE, "suggestion", << >>)
          ELSE Finished([suggest EXCEPT !.requests = @ \ {r},
                                        !.aiError = Thrown(r.response),
                                        !.loadingAI = FALSE],
                        r, TRUE, "error", Thrown(r.response))
    /\ UNCHANGED notSuggest

\* the fetch of getAISuggestion rejects: the server was not reached
suggestFetchRejected(r) ==
    /\ r \in suggestRequests
    /\ r.pc = "posted"
    /\ suggest' =
          Finished([suggest EXCEPT !.requests = @ \ {r},
                                   !.aiError = <<"Failed to fetch">>,
                                   !.loadingAI = FALSE],
                   r, TRUE, "error", <<"Failed to fetch">>)
    /\ UNCHANGED notSuggest

\* the hook is given a From and a To
InitSuggestRun ==
    /\ build = "hooks"
    /\ showModal = FALSE
    /\ geoPending = FALSE
    /\ userPosition = Null
    /\ userPositionAccuracy = NoAccuracy
    /\ geoError = FALSE
    /\ destination = Null
    /\ fromLocation \in SuggestFroms
    /\ toLocation \in SuggestTos
    /\ routeMode = "none"
    /\ routeCoordinates = << >>
    /\ pending = EmptyBag
    /\ lastEvent = "init"
    /\ fetches = << >>
    /\ requestLog = << >>
    /\ lastReply = NoReply
    /\ InitServer
    /\ InitCodec
    /\ InitFormat
    /\ InitEnv /\ InitDecode /\ InitLocate
    /\ InitSuggest

NextSuggest ==
    \/ handleGetAISuggestion
    \/ \E r \in suggestRequests, files \in {"read", "unreadable"} :
          suggestPOST(r, files)
    \/ \E r \in suggestRequests, reply \in ProviderReplies : openaiSettled(r, reply)
    \/ \E r \in suggestRequests : suggestResponse(r)
    \/ \E r \in suggestRequests : suggestFetchRejected(r)

SpecSuggest == InitSuggestRun /\ [][NextSuggest]_vars

\* ------------------------------------------- services that never answer
\* fetchRoute awaits fetch(url) without a signal or a deadline, so what it
\* does next is up to the service. A silent service never settles the fetch;
\* a fetch that a service does settle is handled: the continuation of the
\* await is queued by the runtime and nothing can starve it. The same holds
\* for openai.chat.completions.create in the suggestion route, and the
\* application's own server answers the requests it receives.
\* The route is requested in the component with fetchRoute, the suggestion
\* through the hook; the two share no state and are run apart.
Providers == {"osrm", "graphhopper", "openai"}

osrmAnswers ==
    \E i \in 1 .. Len(fetches) :
       \E reply \in OsrmReplies(fetches[i].start, fetches[i].end) :
          /\ "osrm" \notin silent
          /\ osrmResponse(i, reply)

graphHopperAnswers ==
    \E i \in 1 .. Len(fetches) :
       \E reply \in GraphHopperReplies(fetches[i].start, fetches[i].end) :
          /\ "graphhopper" \notin silent
          /\ graphHopperResponse(i, reply)

openaiAnswers ==
    \E r \in suggestRequests, reply \in ProviderReplies :
       /\ "openai" \notin silent
       /\ openaiSettled(r, reply)

suggestServed ==
    \E r \in suggestRequests, files \in {"read", "unreadable"} :
       suggestPOST(r, files)

suggestReturns == \E r \in suggestRequests : suggestResponse(r)

InitLive ==
    /\ InitServer
    /\ InitCodec
    /\ InitFormat
    /\ InitSuggest
    /\ silent \in SUBSET Providers
    /\ InitDecode /\ InitLocate
    /\ RouteStart
    /\ fetches = << >>
    /\ requestLog = << >>
    /\ lastReply = NoReply

NextLive ==
    \/ build = "monolith" /\ showRoute
    \/ osrmAnswers
    \/ graphHopperAnswers
    \/ build = "hooks" /\ handleGetAISuggestion
    \/ suggestServed
    \/ openaiAnswers
    \/ suggestReturns
    \/ \E r \in suggestRequests : suggestFetchRejected(r)

SpecLive ==
    /\ InitLive
    /\ [][NextLive]_vars
    /\ WF_vars(osrmAnswers)
    /\ WF_vars(graphHopperAnswers)
    /\ WF_vars(suggestServed)
    /\ WF_vars(openaiAnswers)
    /\ WF_vars(suggestReturns)

\* ----------------------------------------------------------------------
\* the label upgrade of the hook, with the response reverseGeocode receives
\* ----------------------------------------------------------------------
\* what POST /api/Routes can give reverseGeocode: the connection fails, a
\* non-2xx status (400, 500, 502), a body that is not JSON, JSON without
\* display_name, JSON with the address of the place
GeocodeResponses(lat, lng) ==
    {[status |-> "network_error", body |-> "none", display_name |-> Null],
     [status |-> "http_error", body |-> "none", display_name |-> Null],
     [status |-> "ok", body |-> "not_json", display_name |-> Null],
     [status |-> "ok", body |-> "json", display_name |-> Null],
     [status |-> "ok", body |-> "json", display_name |-> DisplayName(lat, lng)]}

Returned(value) == [thrown |-> FALSE, value |-> value]
Threw == [thrown |-> TRUE, value |-> Null]

\* reverseGeocode without its try/catch: a rejected fetch, the Error thrown
\* for a non-2xx status and a rejected response.json() reach the caller
reverseGeocodeUncaught(response) ==
    IF response.status = "network_error" THEN Threw
    ELSE IF response.status # "ok" THEN Threw
    ELSE IF response.body = "not_json" THEN Threw
    ELSE IF response.display_name = Null THEN Returned(Null)
    ELSE Returned(formatAddress(response.display_name))

\* reverseGeocode(lat, lng) given the response to its fetch: everything that
\* is thrown inside is caught and null returned
reverseGeocodeFetch(response) ==
    IF response.status = "network_error" THEN Returned(Null)
    ELSE IF response.status # "ok" THEN Returned(Null)
    ELSE IF response.body = "not_json" THEN Returned(Null)
    ELSE IF response.display_name = Null THEN Returned(Null)
    ELSE Returned(formatAddress(response.display_name))

\* history: the response the resumed setFromPoint / setToPoint was given
Resumed(t, response) ==
    [call |-> 0, provider |-> t.kind, status |-> response.status,
     body |-> response.body, payload |-> response.display_name,
     start |-> <<t.lat, t.lng>>, end |-> << >>]

\* setFromPoint / setToPoint of the hook from `await reverseGeocode(lat, lng)`
\* to the end: the try block, its if, and its catch
setPointResumed(t, response) ==
    /\ build = "hooks"
    /\ t.kind \in {"from", "to"}
    /\ pending' = Settle(pending, t)
    /\ lastReply' = Resumed(t, response)
    /\ LET outcome == reverseGeocodeFetch(response)
           formattedAddress == outcome.value
           upgraded == <<t.lat, t.lng, formattedAddress>>
       IN  IF outcome.thrown
           THEN /\ lastEvent' = "label_upgrade_threw"
                /\ UNCHANGED <<fromLocation, toLocation>>
           ELSE IF formattedAddress = Null
           THEN /\ lastEvent' = "label_kept"
                /\ UNCHANGED <<fromLocation, toLocation>>
           ELSE IF t.kind = "from"
           THEN /\ fromLocation' = upgraded
                /\ lastEvent' = "from_label_upgraded"
                /\ UNCHANGED toLocation
           ELSE /\ toLocation' = upgraded
                /\ lastEvent' = "to_label_upgraded"
                /\ UNCHANGED fromLocation
    /\ UNCHANGED notClient
    /\ UNCHANGED <<build, uiVars, destination, routeMode, routeCoordinates,
                   fetches, requestLog>>

\* the label upgrade is checked from the states of Spec in which the modal
\* is dismissed and a place is pinned, its address attached or not
InitUpgrade ==
    /\ build = "hooks"
    /\ showModal = FALSE
    /\ geoPending = FALSE
    /\ userPosition = Null
    /\ userPositionAccuracy = NoAccuracy
    /\ geoError = FALSE
    /\ \E p \in Coords :
          \/ destination = <<p[1], p[2]>> /\ lastEvent = "pin_unlabelled"
          \/ /\ destination = <<p[1], p[2],
                                reverseGeocode(DisplayName(p[1], p[2]))>>
             /\ lastEvent = "pin_labelled"
    /\ fromLocation = Null
    /\ toLocation = Null
    /\ routeMode = "none"
    /\ routeCoordinates = << >>
    /\ pending = EmptyBag
    /\ fetches = << >>
    /\ requestLog = << >>
    /\ lastReply = NoReply
    /\ InitServer
    /\ InitCodec
    /\ InitFormat
    /\ InitSuggest
    /\ InitEnv /\ InitDecode /\ InitLocate

NextUpgrade ==
    \/ setFromPoint
    \/ setToPoint
    \/ \E t \in BagToSet(pending) :
          \E response \in GeocodeResponses(t.lat, t.lng) :
              setPointResumed(t, response)
    \/ clearRoute

SpecUpgrade == InitUpgrade /\ [][NextUpgrade]_vars

\* ----------------------------------------------------------------------
\* getLocation: the promise, the watch and the maxWait timer
\* ----------------------------------------------------------------------
\* the callbacks the watch delivers to one call, at most
MaxFixes == 3

\* getLocation(50, 10000): the accuracy, in metres, that ends the wait
Threshold == 50

\* coords.accuracy of the fixes: better than, at and worse than the threshold
SampleAccuracies == {20, Threshold, 80}

\* position.coords of the fixes the watch can deliver
SampleFixes ==
    {[latitude |-> p[1], longitude |-> p[2], accuracy |-> a] :
        p \in Coords, a \in SampleAccuracies}

\* resolve(value): the first call settles the promise, a later call would
\* leave it as it is
Resolve(state, value, by) ==
    [state EXCEPT !.resolveCalls = @ + 1,
                  !.value = IF state.resolveCalls = 0 THEN value ELSE @,
                  !.by = IF state.resolveCalls = 0 THEN by ELSE @,
                  !.settledAt = IF state.resolveCalls = 0
                                THEN Len(state.received) ELSE @]

\* clear(watchId, timer): clearWatch, and clearTimeout of a timer not yet run
Clear(state, withTimer) ==
    [state EXCEPT !.watching = FALSE,
                  !.timer = IF withTimer /\ @ = "armed" THEN "cleared" ELSE @]

\* best after a fix: the first fix, or one with strictly smaller accuracy
Better(best, position) ==
    IF best = Null \/ position.accuracy < best[4]
    THEN <<position.latitude, position.longitude, <<"Current location">>,
           position.accuracy>>
    ELSE best

\* getLocation(threshold, maxWait) up to its return of the promise
getLocation(supported) ==
    /\ locating.pc = "idle"
    /\ locating' =
          IF ~supported
          THEN Resolve([locating EXCEPT !.pc = "returned"], Null, "unsupported")
          ELSE [locating EXCEPT !.pc = "returned", !.watching = TRUE,
                                !.timer = "armed"]
    /\ UNCHANGED notLocate

\* the success callback finishing on every good fix, done or not
positionCallbackResolvesAgain(position) ==
    /\ locating.pc = "returned"
    /\ locating.timer # "none"
    /\ Len(locating.received) + locating.errors < MaxFixes
    /\ LET got == [locating EXCEPT !.best = Better(@, position),
                                   !.received = Append(@, position)]
       IN  locating' =
              IF position.accuracy <= Threshold
              THEN Resolve(Clear([got EXCEPT !.done = TRUE], TRUE),
                           got.best, "fix")
              ELSE got
    /\ UNCHANGED notLocate

\* the success callback of watchPosition; one already under way may still
\* arrive after clearWatch
positionCallback(position) ==
    /\ locating.pc = "returned"
    /\ locating.timer # "none"
    /\ Len(locating.received) + locating.errors < MaxFixes
    /\ LET got == [locating EXCEPT !.best = Better(@, position),
                                   !.received = Append(@, position)]
       IN  locating' =
              IF position.accuracy <= Threshold /\ ~locating.done
              THEN Resolve(Clear([got EXCEPT !.done = TRUE], TRUE),
                           got.best, "fix")
              ELSE got
    /\ UNCHANGED notLocate

\* the error callback of watchPosition
errorCallback ==
    /\ locating.pc = "returned"
    /\ locating.timer # "none"
    /\ Len(locating.received) + locating.errors < MaxFixes
    /\ LET got == [locating EXCEPT !.errors = @ + 1]
       IN  locating' =
              IF ~locating.done
              THEN Resolve(Clear([got EXCEPT !.done = TRUE], TRUE),
                           got.best, "error")
              ELSE got
    /\ UNCHANGED notLocate

\* the callback of setTimeout(..., maxWait); a cleared timer never runs
timerCallback ==
    /\ locating.timer = "armed"
    /\ LET ran == [locating EXCEPT !.timer = "fired"]
       IN  locating' =
              IF ~locating.done
              THEN Resolve(Clear([ran EXCEPT !.done = TRUE], FALSE),
                           ran.best, "timer")
              ELSE ran
    /\ UNCHANGED notLocate

InitLocateRun ==
    /\ InitClient
    /\ build = "hooks"
    /\ InitServer
    /\ InitCodec
    /\ InitFormat
    /\ InitSuggest
    /\ InitEnv /\ InitDecode
    /\ locating = NoLocate

NextLocate ==
    \/ \E supported \in BOOLEAN : getLocation(supported)
    \/ \E position \in SampleFixes : positionCallback(position)
    \/ errorCallback
    \/ timerCallback

\* a timer that is armed runs: the event loop fires it once maxWait is over
SpecLocate == InitLocateRun /\ [][NextLocate]_vars /\ WF_vars(timerCallback)

\* ----------------------------------------------------------------------
\* decodePolyline, one iteration of an inner loop at a time
\* ----------------------------------------------------------------------
\* the longest string handed to the decoder
MaxStrLen == 3

\* character codes the decoder is given: the ends and the middle of the
\* encoding alphabet (63 .. 126), and the codes just outside it
SampleChars == {62, 63, 64, 94, 95, 96, 126, 127}

\* the encoding alphabet: 63 plus a six-bit group
Alphabet == 63 .. 126

\* every string up to MaxStrLen: empty, whole, cut inside a group, cut after
\* a latitude, with and without characters outside the alphabet
SampleStrings == UNION {[1 .. n -> SampleChars] : n \in 0 .. MaxStrLen}

\* bit 0x20 of an int32, two's complement for negative values
Bit0x20(byte) == byte # NaN /\ (byte \div 32) % 2 = 1

\* the call up to the first test of the while loop
decodeEntered(str) ==
    [NoDecode EXCEPT !.pc = IF 0 < Len(str) THEN "latitude" ELSE "done",
                     !.str = str]

\* an iteration that reads its byte and does nothing else
latitudeGroupStalls ==
    /\ dec.pc = "latitude"
    /\ dec' = [dec EXCEPT !.byte = ByteAt(dec.str, dec.index)]
    /\ UNCHANGED notDecode

\* one iteration of the first do-while: read a byte, advance the index, or
\* the group into result, test byte >= 0x20; when the test fails the
\* latitude change is taken and the second loop starts
latitudeGroup ==
    /\ dec.pc = "latitude"
    /\ LET byte == ByteAt(dec.str, dec.index)
           result == Or32(dec.result, Shl32(Low5(byte), dec.shift))
       IN  dec' = IF Continues(byte)
                  THEN [dec EXCEPT !.byte = byte, !.index = @ + 1,
                                   !.result = result, !.shift = @ + 5,
                                   !.continued = TRUE, !.groups = @ + 1]
                  ELSE [dec EXCEPT !.byte = byte, !.index = @ + 1,
                                   !.continued = FALSE, !.groups = @ + 1,
                                   !.latitude_change = ZigZag(result),
                                   !.shift = 0, !.result = Int32Zero,
                                   !.pc = "longitude"]
    /\ UNCHANGED notDecode

\* one iteration of the second do-while; when the test fails the point is
\* pushed and the while loop tests index < str.length
longitudeGroup ==
    /\ dec.pc = "longitude"
    /\ LET byte == ByteAt(dec.str, dec.index)
           result == Or32(dec.result, Shl32(Low5(byte), dec.shift))
           lat == dec.lat + dec.latitude_change
           lng == dec.lng + ZigZag(result)
       IN  dec' = IF Continues(byte)
                  THEN [dec EXCEPT !.byte = byte, !.index = @ + 1,
                                   !.result = result, !.shift = @ + 5,
                                   !.continued = TRUE, !.groups = @ + 1]
                  ELSE [dec EXCEPT !.byte = byte, !.index = @ + 1,
                                   !.continued = FALSE, !.groups = @ + 1,
                                   !.lat = lat, !.lng = lng,
                                   !.coordinates = Append(@, <<lat, lng>>),
                                   !.shift = 0, !.result = Int32Zero,
                                   !.pc = IF dec.index + 1 < Len(dec.str)
                                          THEN "latitude" ELSE "done"]
    /\ UNCHANGED notDecode

InitDecodeRun ==
    /\ InitClient
    /\ build = "monolith"
    /\ InitServer
    /\ InitCodec
    /\ InitFormat
    /\ InitSuggest
    /\ InitEnv /\ InitLocate
    /\ dec \in {decodeEntered(str) : str \in SampleStrings}

NextDecode == latitudeGroup \/ longitudeGroup

\* the browser runs a started call to its end
SpecDecode == InitDecodeRun /\ [][NextDecode]_vars /\ WF_vars(NextDecode)

\* ----------------------------------------------------------------------
\* Properties
\* ----------------------------------------------------------------------
Point(loc) == <<loc[1], loc[2]>>

FromEvents == {"from_set", "from_already_set", "from_no_pin"}
ToEvents == {"to_set", "to_already_set", "to_no_pin"}
LabelEvents == {"from_label_upgraded", "to_label_upgraded", "label_kept"}
RouteDoneEvents == {"route_osrm", "route_graphhopper", "route_straight_line"}

\* C1: a From or To waypoint that is non-empty is never replaced by a
\* waypoint at other coordinates; only a Clear (which empties it) may come
\* between two different waypoints.
C1_WriteOnce ==
    [][/\ (fromLocation # Null /\ fromLocation' # Null)
            => Point(fromLocation') = Point(fromLocation)
       /\ (toLocation # Null /\ toLocation' # Null)
            => Point(toLocation') = Point(toLocation)]_vars

\* C2: a Set From issued while From is set answers "already set" and
\* leaves From as it was, wherever the pin is by then.
C2_SecondSetFromRejected ==
    [][(fromLocation # Null /\ lastEvent' \in FromEvents)
          => (lastEvent' = "from_already_set" /\ fromLocation' = fromLocation)]_vars

\* C3: a Set To issued while To is set answers "already set" and leaves To,
\* From and the mode unchanged; issued while To is empty and a pin exists it
\* stores the pin as To and sets the mode to TO.
C3_SetToSymmetric ==
    [][lastEvent' \in ToEvents =>
          IF toLocation # Null
          THEN /\ lastEvent' = "to_already_set"
               /\ UNCHANGED <<toLocation, fromLocation, routeMode>>
          ELSE destination # Null =>
                 /\ lastEvent' = "to_set"
                 /\ Point(toLocation') = Point(destination)
                 /\ routeMode' = "to"]_vars

\* C4: a label upgrade that completes while From and To are both empty (a
\* Clear ran while it was in flight) is discarded: From and To stay empty.
C4_UpgradeAfterClearDiscarded ==
    [][(lastEvent' \in LabelEvents /\ fromLocation = Null /\ toLocation = Null)
          => (fromLocation' = Null /\ toLocation' = Null)]_vars

\* a label upgrade for From issued before the last Clear completes in this step
StaleFromUpgradeCompletes ==
    /\ lastEvent' \in LabelEvents
    /\ \E t \in BagToSet(pending) :
          /\ t.kind = "from"
          /\ t.stale
          /\ pending' = Settle(pending, t)

\* C5: after SetFrom(A), Clear, SetFrom(B) the late answer for A changes
\* neither the coordinates nor the label of From.
C5_StaleUpgradeKeepsReassigned ==
    [][(StaleFromUpgradeCompletes /\ fromLocation # Null)
          => fromLocation' = fromLocation]_vars

\* C6: directly after Clear Route, From and To are empty and the mode is
\* NONE, all three reset by the one step (the displayed path goes with them).
C6_ClearResetsTogether ==
    lastEvent = "cleared" =>
        /\ fromLocation = Null
        /\ toLocation = Null
        /\ routeMode = "none"
        /\ routeCoordinates = << >>

\* Clear Route ran while a waypoint was set and its label upgrade in flight
C6_Witness ==
    /\ lastEvent = "cleared"
    /\ \E t \in BagToSet(pending) : t.stale

\* C7: right after a successful Set From, before its reverse-geocode has
\* answered, From already holds the pin's coordinates with the pin's label or
\* the default label, and the mode is FROM.
C7_StoredBeforeGeocode ==
    lastEvent = "from_set" =>
        /\ fromLocation = <<destination[1], destination[2],
                            LabelOr(destination, <<"From Location">>)>>
        /\ routeMode = "from"
        /\ build = "hooks" =>
              BagIn(Task("from", destination[1], destination[2]), pending)

\* the hook's Set From has stored an unlabelled pin under the default label
\* and its reverse-geocode is still in flight
C7_Witness ==
    /\ lastEvent = "from_set"
    /\ build = "hooks"
    /\ Len(destination) = 2
    /\ fromLocation = <<destination[1], destination[2], <<"From Location">>>>
    /\ \E t \in BagToSet(pending) : t.kind = "from" /\ ~t.stale

\* C8: Set From or Set To issued while there is no pin answers "pin a
\* location first", not "already set", and leaves From, To and the mode
\* unchanged.
C8_NoPinRejected ==
    [][(destination = Null /\ lastEvent' \in FromEvents \cup ToEvents)
          => /\ lastEvent' \in {"from_no_pin", "to_no_pin"}
             /\ UNCHANGED <<fromLocation, toLocation, routeMode>>]_vars

\* Set From was refused for want of a pin
C8_Witness ==
    /\ lastEvent = "from_no_pin"
    /\ destination = Null
    /\ fromLocation = Null

\* C9: when a fetchRoute call has ended, the displayed path has at least two
\* points, begins at the call's start and ends at the call's end.
C9_ResolveEndsWithPath ==
    lastEvent \in RouteDoneEvents =>
        /\ Len(routeCoordinates) >= 2
        /\ routeCoordinates[1] = lastReply.start
        /\ routeCoordinates[Len(routeCoordinates)] = lastReply.end

Exchange(e) == <<e.provider, e.ev, e.ok>>

Range(f) == {f[x] : x \in DOMAIN f}

\* C10: when a call's OSRM request failed and its GraphHopper request
\* succeeded, the displayed path is the decoded GraphHopper polyline, and the
\* call's wire history is: OSRM request, OSRM response, GraphHopper request,
\* GraphHopper response, in this order.
C10_SecondProviderAfterFirst ==
    LET L == requestLog[lastReply.call]
    IN  (/\ lastEvent \in RouteDoneEvents
         /\ \E k \in 1 .. Len(L) : Exchange(L[k]) = <<"osrm", "response", FALSE>>
         /\ \E k \in 1 .. Len(L) : Exchange(L[k]) = <<"graphhopper", "response", TRUE>>)
        => /\ lastReply.provider = "graphhopper"
           /\ routeCoordinates = decodePolyline(lastReply.payload)
           /\ [k \in 1 .. Len(L) |-> Exchange(L[k])] =
                  << <<"osrm", "request", FALSE>>, <<"osrm", "response", FALSE>>,
                     <<"graphhopper", "request", FALSE>>,
                     <<"graphhopper", "response", TRUE>> >>

\* GraphHopper answered a three-point path after OSRM failed
C10_Witness ==
    /\ lastEvent = "route_graphhopper"
    /\ Len(routeCoordinates) = 3
    /\ routeCoordinates[1] = Point(fromLocation)
    /\ routeCoordinates[3] = Point(toLocation)

\* the wire history of call c, as <<provider, event, usable>> triples
History(c) == [k \in 1 .. Len(requestLog[c]) |-> Exchange(requestLog[c][k])]

\* C11: in every call's wire history a GraphHopper request comes directly
\* after a failed OSRM response, and a usable response of either provider is
\* the last entry of the history: nothing is requested after it.
C11_ShortCircuit ==
    \A c \in 1 .. Len(requestLog) :
        \A k \in 1 .. Len(History(c)) :
            /\ History(c)[k] = <<"graphhopper", "request", FALSE>>
                  => (k > 1 /\ History(c)[k - 1] = <<"osrm", "response", FALSE>>)
            /\ (History(c)[k][2] = "response" /\ History(c)[k][3])
                  => k = Len(History(c))

\* a call answered by OSRM ended after two exchanges while an earlier call
\* had gone on to GraphHopper
C11_Witness ==
    /\ lastEvent = "route_osrm"
    /\ fetches = << >>
    /\ History(lastReply.call) =
          << <<"osrm", "request", FALSE>>, <<"osrm", "response", TRUE>> >>
    /\ \E c \in 1 .. Len(requestLog) : Len(History(c)) = 4

\* C12: when a call has ended and both of its providers failed, the
\* displayed path is exactly <<start, end>> of that call.
C12_AllFailStraightLine ==
    (/\ lastEvent \in RouteDoneEvents
     /\ <<"osrm", "response", FALSE>> \in Range(History(lastReply.call))
     /\ <<"graphhopper", "response", FALSE>> \in Range(History(lastReply.call)))
    => /\ lastEvent = "route_straight_line"
       /\ routeCoordinates = <<lastReply.start, lastReply.end>>

\* both providers failed for two different places
C12_Witness ==
    /\ lastEvent = "route_straight_line"
    /\ lastReply.start # lastReply.end
    /\ lastReply.start = Point(fromLocation)
    /\ lastReply.end = Point(toLocation)

\* C13: whatever the kind of failure of a provider response, the step that
\* handles it either goes on to GraphHopper (failure of OSRM: the call stays
\* in flight with the GraphHopper request sent) or ends the call with the
\* straight line (failure of GraphHopper); the call never ends in an error.
C13_FailuresAbsorbed ==
    [][(lastReply' # lastReply /\ ~Usable(lastReply')) =>
          LET c == lastReply'.call
              H == [k \in 1 .. Len(requestLog'[c]) |-> Exchange(requestLog'[c][k])]
          IN  IF lastReply'.provider = "osrm"
              THEN /\ lastEvent' = "osrm_failed"
                   /\ H = << <<"osrm", "request", FALSE>>,
                             <<"osrm", "response", FALSE>>,
                             <<"graphhopper", "request", FALSE>> >>
                   /\ \E i \in 1 .. Len(fetches') :
                         fetches'[i].call = c /\ fetches'[i].pc = "graphhopper"
                   /\ UNCHANGED routeCoordinates
              ELSE /\ lastEvent' = "route_straight_line"
                   /\ H[Len(H)] = <<"graphhopper", "response", FALSE>>
                   /\ \A i \in 1 .. Len(fetches') : fetches'[i].call # c
                   /\ routeCoordinates' = <<lastReply'.start, lastReply'.end>>]_vars

\* a first path without points made the decoder throw, after OSRM had failed
C13_Witness ==
    /\ lastEvent = "route_straight_line"
    /\ lastReply.body = "points_missing"
    /\ Len(routeCoordinates) = 2

\* C14: in every call's wire history each provider is requested at most once.
C14_AtMostOncePerCall ==
    \A c \in 1 .. Len(requestLog) :
        \A provider \in {"osrm", "graphhopper"} :
            Cardinality({k \in 1 .. Len(History(c)) :
                            History(c)[k] = <<provider, "request", FALSE>>}) <= 1

\* a call that lost its connection to OSRM and then to GraphHopper has ended
C14_Witness ==
    /\ lastEvent = "route_straight_line"
    /\ lastReply.status = "network_error"
    /\ Len(History(lastReply.call)) = 4
    /\ History(lastReply.call)[2] = <<"osrm", "response", FALSE>>

\* C15: a path taken from a provider is one of the latitude-first paths the
\* service computed between the call's places, whether it came longitude
\* first from OSRM or as a polyline from GraphHopper, and the straight line
\* is <<start, end>> as given, latitude first.
C15_LatitudeFirst ==
    /\ lastEvent \in {"route_osrm", "route_graphhopper"}
          => routeCoordinates \in ServicePaths(lastReply.start, lastReply.end)
    /\ lastEvent = "route_straight_line"
          => \A k \in 1 .. Len(routeCoordinates) :
                routeCoordinates[k] \in {lastReply.start, lastReply.end}

\* OSRM answered a path through a third point, longitude first
C15_Witness ==
    /\ lastEvent = "route_osrm"
    /\ Len(routeCoordinates) = 3
    /\ lastReply.payload[2] = SwapPair(MidPoint(lastReply.start, lastReply.end))
    /\ routeCoordinates[2] = MidPoint(lastReply.start, lastReply.end)

\* C16: decoding the encoded polyline of a path gives the path back, point
\* for point, for paths with negative and positive coordinates and deltas
\* of one and of several characters.
C16_DecodeInvertsEncode ==
    codecPc = "decoded" => codecOut = codecSeq

\* a two-point path from the north-east to the south-west came back
C16_Witness ==
    /\ codecPc = "decoded"
    /\ Len(codecSeq) = 2
    /\ codecSeq[2][1] < codecSeq[1][1]
    /\ codecSeq[2][2] < codecSeq[1][2]
    /\ Len(codecStr) > 8
    /\ codecOut[2] = codecSeq[2]

\* the due times of the eviction timers outstanding for a key: one per
\* store of the key, each TTL after its store
Dues(key) == {t.due : t \in {u \in BagToSet(timers) : u.key = key}}

Lookups == {"lookup_hit", "lookup_miss"}

\* C17: a lookup misses for a key never stored, hits while the latest store
\* of its key is younger than the TTL, and misses once the TTL of every
\* store of its key has passed.
C17_LookupFollowsTtl ==
    lastServed.op \in Lookups =>
        /\ Dues(lastServed.key) = {} => lastServed.op = "lookup_miss"
        /\ (\E due \in Dues(lastServed.key) : lastServed.at < due)
              => lastServed.op = "lookup_hit"
        /\ (\A due \in Dues(lastServed.key) : lastServed.at > due)
              => lastServed.op = "lookup_miss"

\* the entry of a key was deleted by the timer of an earlier store of the
\* key and a lookup missed it within its TTL
MissWithinTtl ==
    /\ lastServed.op = "lookup_miss"
    /\ \E due \in Dues(lastServed.key) : lastServed.at < due

\* C18: a lookup that hits happens no later than the expiry of the entry it
\* returns, the store time of the entry plus the TTL.
C18_NoHitAfterExpiry ==
    lastServed.op = "lookup_hit" =>
        \E due \in Dues(lastServed.key) : lastServed.at <= due

\* C19: no request inserts an entry for a key that has one: an entry found
\* at the insert was put there, after this request's own miss, by a request
\* that had missed too.
C19_ExclusiveCheckInsert ==
    [][BagCardinality(timers') > BagCardinality(timers)
          => lastServed'.key \notin DOMAIN CACHE]_vars

\* formatting a formatted address changes nothing
IsFormatted(text) == text = Null \/ formatAddress(text) = text

LabelOf(loc) == IF Len(loc) >= 3 THEN loc[3] ELSE Null

\* C20: every address held by the cache and every label of the pin, of From
\* and of To is a formatted address, never the verbose one of the service.
C20_FormattedBeforeStored ==
    /\ \A key \in DOMAIN CACHE : IsFormatted(CACHE[key].display_name)
    /\ IsFormatted(LabelOf(destination))
    /\ IsFormatted(LabelOf(fromLocation))
    /\ IsFormatted(LabelOf(toLocation))

\* the pin, From and To carry formatted labels only
C20_LabelsFormatted ==
    /\ IsFormatted(LabelOf(destination))
    /\ IsFormatted(LabelOf(fromLocation))
    /\ IsFormatted(LabelOf(toLocation))

\* the parts of an address that the patterns let through
Survivors(fullAddress) ==
    SelectSeq(partsOf(fullAddress), LAMBDA part : ~testUnwanted(part))

\* the formatter on words and the formatter on characters agree on the
\* answers of the geocoding service
FormatterLevelsAgree ==
    \A lat \in 9 .. 12 :
        formatAddressText(SpellAll(DisplayName(lat, 123)))
            = SpellAll(formatAddress(DisplayName(lat, 123)))

\* C21: the example address comes out as its first three parts, and an
\* address with a part that passes the patterns comes out as the first (at
\* most three) such parts, trimmed, in their order, joined by ", ": one to
\* three parts, none matching a pattern.
C21_FormatKeepsFirstThree ==
    fmtPc = "formatted" =>
        /\ fmtIn = ExampleAddress => fmtOut = ExampleOutput
        /\ LET kept == Survivors(fmtIn)
                result == partsOf(fmtOut)
           IN  kept # << >> =>
                 /\ Len(result) \in 1 .. 3
                 /\ \A i \in 1 .. Len(result) :
                       /\ ~testUnwanted(result[i])
                       /\ result[i] = kept[i]
                 /\ Len(result) = 3 \/ Len(result) = Len(kept)
                 /\ fmtOut = join(result)
        /\ FormatterLevelsAgree

\* an address of four parts that all pass came out as its first three
C21_Witness ==
    /\ fmtPc = "formatted"
    /\ fmtIn = LongAddress
    /\ Len(Survivors(fmtIn)) = 4
    /\ Len(partsOf(fmtOut)) = 3

\* C22: an address none of whose parts passes the patterns comes out as its
\* first two parts joined by ", "; an address without parts comes out
\* unchanged; so an address that is not empty never comes out empty.
C22_FallbackLadder ==
    fmtPc = "formatted" =>
        /\ (Survivors(fmtIn) = << >> /\ partsOf(fmtIn) # << >>)
              => fmtOut = join(slice(partsOf(fmtIn), 2))
        /\ partsOf(fmtIn) = << >> => fmtOut = fmtIn
        /\ fmtIn # << >> => fmtOut # << >>

\* blanks between commas came out as they went in
C22_Witness ==
    /\ fmtPc = "formatted"
    /\ Len(fmtIn) >= 3
    /\ partsOf(fmtIn) = << >>
    /\ fmtOut = fmtIn

\* the province and a postal code, nothing else, came out as both
C22_WitnessTwoParts ==
    /\ fmtPc = "formatted"
    /\ Len(partsOf(fmtIn)) >= 2
    /\ Survivors(fmtIn) = << >>
    /\ Len(partsOf(fmtOut)) = 2

\* a finished call one of whose locations is empty or has no longitude
MissingWaypoint(rec) ==
    \/ rec.from = Null
    \/ rec.to = Null
    \/ Len(rec.from) < 2
    \/ Len(rec.to) < 2

\* a finished call that was refused for its locations: by the hook, or by
\* the server with status 400
RejectedAsMissing(rec) ==
    /\ rec.outcome = "error"
    /\ \/ ~rec.fetched
       \/ rec.status = 400

\* a finished call to which the text service gave no JSON, or JSON without
\* route_summary or without steps
Malformed(rec) ==
    \/ rec.reply = "not_json"
    \/ /\ rec.reply = "json"
       /\ ~({"route_summary", "steps"} \subseteq Range(rec.content))

\* a finished call whose request to the text service failed
ProviderFailed(rec) == rec.reply \in {"connection_error", "status_error"}

\* C23: a suggestion request whose From and To both have a latitude and a
\* longitude, zero included, is not refused as a missing waypoint.
C23_ZeroIsValid ==
    (lastSuggest.call > 0 /\ ~MissingWaypoint(lastSuggest))
        => ~RejectedAsMissing(lastSuggest)

C24_WitnessEmpty ==
    /\ lastSuggest.call > 0
    /\ lastSuggest.to = Null
    /\ lastSuggest.from # Null
    /\ aiError = <<"Please set both From and To locations first">>

\* C25: an answer of the text service that is not JSON, or that lacks
\* route_summary or steps, ends the call in an error and is never stored as
\* the suggestion.
C25_MalformedNeverSucceeds ==
    /\ Malformed(lastSuggest) => lastSuggest.outcome = "error"
    /\ aiSuggestion # Null =>
          {"route_summary", "steps"} \subseteq Range(aiSuggestion)

\* C26: a call that failed because the text service failed ends with a
\* message that differs from the one of a call that failed for a malformed
\* answer or for a missing waypoint.
C26_ProviderErrorDistinct ==
    (/\ ProviderFailed(lastSuggest)
     /\ prevSuggest.outcome = "error"
     /\ Malformed(prevSuggest) \/ MissingWaypoint(prevSuggest))
        => lastSuggest.message # prevSuggest.message

C27_EveryCallReturns ==
    /\ (fetches # << >>) ~> (fetches = << >>)
    /\ (suggestRequests # {}) ~> (suggestRequests = {} /\ ~loadingAI)

\* the same for the runs in which every service answers
C27_ReturnsIfAnswered ==
    /\ (fetches # << >> /\ silent = {}) ~> (fetches = << >>)
    /\ (suggestRequests # {} /\ silent = {})
          ~> (suggestRequests = {} /\ ~loadingAI)

\* the runs in which only the text service is silent
C27_SuggestWaits ==
    (suggestRequests # {} /\ silent = {"openai"}) ~> (suggestRequests = {})

\* the key written into the address of the GraphHopper request
GraphHopperKey == "8b1a7ab7-52de-4c29-a9cc-b5d2ba3b2983"

\* the addresses fetchRoute asks: the host and the key parameter
RouteUrl(provider) ==
    IF provider = "osrm"
    THEN [host |-> "router.project-osrm.org", key |-> "none"]
    ELSE [host |-> "graphhopper.com", key |-> GraphHopperKey]

ConsoleLine(text, key) == [text |-> text, key |-> key]

\* the lines fetchRoute may write to the console in the step that adds an
\* entry to the history of a call, each with the key its arguments hold
Console(entry) ==
    IF entry.ev = "request" /\ entry.provider = "osrm"
    THEN {ConsoleLine("Fetching route from:", "none"),
          ConsoleLine("OSRM API URL:", RouteUrl("osrm").key)}
    ELSE IF entry.ev = "request"
    THEN {ConsoleLine("OSRM failed, trying GraphHopper:", "none"),
          ConsoleLine("GraphHopper API URL:", RouteUrl("graphhopper").key)}
    ELSE IF entry.provider = "osrm"
    THEN {ConsoleLine("API Response status:", "none"),
          ConsoleLine("Route data received:", "none")}
         \cup (IF entry.ok
               THEN {ConsoleLine("Setting route coordinates:", "none"),
                     ConsoleLine("Route fetched successfully with OSRM", "none")}
               ELSE {})
    ELSE {ConsoleLine("GraphHopper data received:", "none")}
         \cup (IF entry.ok
               THEN {ConsoleLine("Setting GraphHopper route coordinates:", "none"),
                     ConsoleLine("Route fetched successfully with GraphHopper",
                                 "none")}
               ELSE {ConsoleLine("GraphHopper also failed:", "none"),
                     ConsoleLine("Using fallback straight line", "none")})

\* everything the calls of fetchRoute have written so far
ConsoleOutput ==
    UNION {UNION {Console(requestLog[call][k]) : k \in 1 .. Len(requestLog[call])} :
             call \in 1 .. Len(requestLog)}

\* C28: no line that fetchRoute writes to the console holds the key of a
\* routing service.
C28_NoKeyInLogs == \A line \in ConsoleOutput : line.key = "none"

\* C30: the route mode follows the assignments: a step that assigns From
\* leaves it "from", a step that assigns To leaves it "to", Clear leaves it
\* "none", and every other step (a refused Set From or Set To, a label
\* upgrade, a click, a route request) leaves it as it was.
C30_ModeFollowsAssignment ==
    [][IF lastEvent' \in {"from_set", "geo_ok"} THEN routeMode' = "from"
       ELSE IF lastEvent' = "to_set" THEN routeMode' = "to"
       ELSE IF lastEvent' = "cleared" THEN routeMode' = "none"
       ELSE routeMode' = routeMode]_vars

\* the label of From was upgraded after To had been assigned
C30_Witness ==
    /\ lastEvent = "from_label_upgraded"
    /\ routeMode = "to"
    /\ fromLocation # Null
    /\ toLocation # Null

\* Set From was refused after To had been assigned
C30_WitnessRefused ==
    /\ lastEvent \in {"from_already_set", "from_no_pin"}
    /\ routeMode = "to"

\* the last inner-loop step read a character of the string
ReadCharacter == dec.groups > 0 /\ dec.byte # NaN

\* C31 as stated: for every character the decoder reads, whatever its code,
\* the loop went on exactly when bit 0x20 of (char code - 63) is set
C31_TestIsBit0x20 ==
    ReadCharacter => (dec.continued <=> Bit0x20(dec.byte))

\* C31: for every character of the encoding alphabet (codes 63 .. 126) the
\* decoder reads, the loop went on exactly when bit 0x20 of (char code - 63)
\* is set, so a group sequence ends at its first group with that bit clear;
\* and a read past the end of the string ends the sequence
C31_TestIsBit0x20InAlphabet ==
    /\ ReadCharacter /\ dec.byte + 63 \in Alphabet
           => (dec.continued <=> Bit0x20(dec.byte))
    /\ dec.groups > 0 /\ dec.byte = NaN => ~dec.continued

\* a latitude of two groups: the first with bit 0x20 set, the second without
C31_Witness ==
    /\ Len(dec.str) >= 2
    /\ dec.pc = "longitude"
    /\ dec.index = 2
    /\ dec.str[1] = 95
    /\ dec.str[2] = 64
    /\ ~dec.continued
    /\ dec.latitude_change = 16

\* a character outside the alphabet on which test and bit differ
C31_WitnessOutside ==
    /\ ReadCharacter
    /\ dec.byte + 63 \notin Alphabet
    /\ dec.continued # Bit0x20(dec.byte)

\* what holds of every state of a call: the index is never more than two
\* past the end, a step that read past the end left its loop, and a call
\* that has ended returns what decodePolyline returns
DecodeInBounds ==
    /\ dec.index <= Len(dec.str) + 2
    /\ dec.groups = dec.index
    /\ dec.groups > 0 /\ dec.index > Len(dec.str) => ~dec.continued
    /\ dec.pc = "done" => /\ dec.index >= Len(dec.str)
                          /\ dec.coordinates = decodePolyline(dec.str)

\* C35: decodePolyline ends on every string, empty, cut short or outside the
\* alphabet: every inner-loop step moves the index up by one, a loop is left
\* once the index has passed the end of the string, and the call reaches
\* its return
C35_DecodeTerminates ==
    /\ []DecodeInBounds
    /\ [][dec'.index = dec.index + 1]_vars
    /\ <>(dec.pc = "done")

\* a string cut inside a latitude, its last character outside the alphabet:
\* both loops ran past the end and the call returned one point
C35_Witness ==
    /\ dec.pc = "done"
    /\ Len(dec.str) = 2
    /\ dec.str[1] = 95
    /\ dec.str[2] = 127
    /\ dec.index = 4
    /\ Len(dec.coordinates) = 1

\* the empty string: returned at once with no point
C35_WitnessEmpty ==
    dec.pc = "done" /\ dec.str = << >> /\ dec.index = 0 /\ dec.coordinates = << >>

\* a latitude with no longitude
C35_WitnessNoLongitude ==
    /\ dec.pc = "done"
    /\ dec.str = <<64>>
    /\ dec.index = 2
    /\ dec.coordinates = <<<<0 - 1, 0>>>>

\* C32: the pin stays on the most recent click: the step in which a
\* reverse-geocode answer labels the pin leaves the pin at the coordinates
\* it had, so the answer for an earlier click never moves the pin back
C32_PinStaysOnLastClick ==
    [][lastEvent' = "pin_labelled"
          => /\ destination # Null
             /\ destination'[1] = destination[1]
             /\ destination'[2] = destination[2]]_vars

\* C33: once every call of fetchRoute has returned, the path on the map is
\* the one set by the call issued last: the slower answer to an earlier
\* call has not replaced it
C33_LatestCallWins ==
    fetches = << >> /\ lastEvent \in RouteDoneEvents
        => lastReply.call = CallsStarted

\* C34: a path is on the map only while From and To are both set: after
\* Clear Route the path stays empty until the next Show Route, whatever
\* call of fetchRoute was waiting for its answer when Clear ran
C34_PathNeedsBothWaypoints ==
    routeCoordinates # << >> => fromLocation # Null /\ toLocation # Null

\* the handler answered without a successful upstream response: 400, 502,
\* 500, or 200 from the cache
AnsweredWithoutUpstream(served) ==
    served.status \in {400, 502, 500} \/ served.op = "lookup_hit"

\* C36: a step in which the handler answers 400, 502, 500 or from the cache
\* leaves the cache and the eviction timers as they were, a cache hit starts
\* no upstream request, and an entry is written and a timer scheduled only
\* in the step that answers 200 after Nominatim's body has been parsed
C36_CacheWrittenOnlyOnSuccess ==
    [][/\ AnsweredWithoutUpstream(lastServed')
            => CACHE' = CACHE /\ timers' = timers
       /\ lastServed'.op = "lookup_hit" => requests' = requests
       /\ (\E k \in DOMAIN CACHE' : k \notin DOMAIN CACHE \/ CACHE'[k] # CACHE[k])
            => lastServed'.op = "stored" /\ lastServed'.status = 200
       /\ (\E t \in BagToSet(timers') : CopiesIn(t, timers') > CopiesIn(t, timers))
            => lastServed'.op = "stored"]_vars

\* a request served from the cache: the entry and its timer are still there
C36_Witness ==
    /\ lastServed.op = "lookup_hit"
    /\ lastServed.key \in DOMAIN CACHE
    /\ BagToSet(timers) # {}
    /\ requests = EmptyBag

\* 400, 502 and 500 answered while the cache holds an entry
C36_WitnessBadRequest ==
    lastServed.status = 400 /\ DOMAIN CACHE # {}

C36_WitnessUpstreamError ==
    lastServed.status = 502 /\ DOMAIN CACHE # {} /\ lastServed.key \notin DOMAIN CACHE

C36_WitnessException ==
    lastServed.status = 500 /\ DOMAIN CACHE # {} /\ lastServed.key \notin DOMAIN CACHE

\* the response handled last was to a label upgrade and was a failure: no
\* connection, a non-2xx status, a body that does not parse, no display_name
UpgradeFailed(reply) ==
    /\ reply.provider \in {"from", "to"}
    /\ \/ reply.status # "ok"
       \/ reply.body # "json"
       \/ reply.payload = Null

\* C37: when the response to a label upgrade is a failure, reverseGeocode
\* returns null without throwing, and the step leaves From, To and the mode
\* as they were: the waypoint keeps the coordinates and the label it had
C37_FailedUpgradeKeepsWaypoint ==
    [][lastReply' # lastReply /\ UpgradeFailed(lastReply')
          => /\ lastEvent' = "label_kept"
             /\ fromLocation' = fromLocation
             /\ toLocation' = toLocation
             /\ routeMode' = routeMode]_vars

\* From as Set From stored it from an unlabelled pin, after the upgrade got a
\* non-2xx status
C37_Witness ==
    /\ UpgradeFailed(lastReply)
    /\ lastReply.status = "http_error"
    /\ lastReply.provider = "from"
    /\ lastEvent = "label_kept"
    /\ fromLocation = <<lastReply.start[1], lastReply.start[2], <<"From Location">>>>
    /\ routeMode = "from"

\* the other failures: the connection, the body, the missing display_name
C37_WitnessNetwork ==
    lastReply.provider = "to" /\ lastReply.status = "network_error"
        /\ lastEvent = "label_kept" /\ toLocation # Null

C37_WitnessNotJson ==
    lastReply.provider = "to" /\ lastReply.body = "not_json"
        /\ lastEvent = "label_kept" /\ toLocation # Null

C37_WitnessNoDisplayName ==
    /\ lastReply.provider = "from" /\ lastReply.body = "json"
    /\ lastReply.payload = Null
    /\ lastEvent = "label_kept" /\ fromLocation # Null

\* the promise of getLocation is settled
Resolved == locating.resolveCalls > 0

\* the fixes delivered before the promise was settled, the settling one
\* included
FixesSeen == SubSeq(locating.received, 1, locating.settledAt)

\* the first of the fixes with the smallest accuracy value, as getLocation
\* hands it over; null when there is none
SmallestAccuracy(fixes) ==
    IF fixes = << >> THEN Null
    ELSE LET k == CHOOSE k \in 1 .. Len(fixes) :
                    /\ \A j \in 1 .. Len(fixes) :
                          fixes[j].accuracy >= fixes[k].accuracy
                    /\ \A j \in 1 .. k - 1 :
                          fixes[j].accuracy > fixes[k].accuracy
         IN  <<fixes[k].latitude, fixes[k].longitude, <<"Current location">>,
               fixes[k].accuracy>>

\* resolve is called at most once; the value is the best fix seen by then;
\* what settled the promise came first: a fix only if it is the first within
\* the threshold, an error or the timer only if no fix within it came before
ResolvedByTheFirst ==
    /\ locating.resolveCalls <= 1
    /\ Resolved => locating.value = SmallestAccuracy(FixesSeen)
    /\ locating.by = "fix" =>
          /\ locating.settledAt >= 1
          /\ locating.value[4] <= Threshold
          /\ \A j \in 1 .. locating.settledAt - 1 :
                locating.received[j].accuracy > Threshold
    /\ locating.by \in {"error", "timer"} =>
          \A j \in 1 .. locating.settledAt :
              locating.received[j].accuracy > Threshold
    /\ locating.by = "unsupported" => locating.value = Null

\* C38: the promise of getLocation is resolved exactly once, by the first of
\* a fix within the threshold, a geolocation error or the maxWait timer, with
\* the fix of smallest accuracy value received so far or null; once it is
\* resolved no callback changes it; and, the timer being run when due, every
\* call is resolved in the end
C38_ResolvedExactlyOnce ==
    /\ []ResolvedByTheFirst
    /\ [][Resolved => /\ locating'.value = locating.value
                      /\ locating'.by = locating.by
                      /\ locating'.resolveCalls = locating.resolveCalls]_vars
    /\ (locating.pc = "returned") ~> (locating.resolveCalls = 1)

\* resolved by the timer with the better of two fixes outside the threshold;
\* a fix within the threshold arrived afterwards and changed nothing
C38_Witness ==
    /\ locating.by = "timer"
    /\ locating.settledAt = 2
    /\ Len(locating.received) = 3
    /\ locating.received[1].accuracy = 80
    /\ locating.received[3].accuracy = 20
    /\ locating.value[4] = 80
    /\ locating.resolveCalls = 1

\* resolved by a fix within the threshold, the timer cleared
C38_WitnessFix ==
    /\ locating.by = "fix"
    /\ locating.timer = "cleared"
    /\ locating.settledAt = 2
    /\ locating.value[4] = Threshold

\* resolved with null: by an error before any fix, by the timer, or because
\* the browser has no geolocation
C38_WitnessError ==
    locating.by = "error" /\ locating.value = Null /\ locating.errors = 2

C38_WitnessTimerNull ==
    locating.by = "timer" /\ locating.value = Null /\ locating.errors = 1

C38_WitnessUnsupported ==
    locating.by = "unsupported" /\ locating.timer = "none"
====
